---- MODULE Spec2Model ----
(***************************************************************************)
(* Model of the Nutrient.io Word add-in: the client-side DocumentService   *)
(* (exportToPDF / redactDocument / uploadToViewer) and the serverless      *)
(* proxy handlers (build and viewer-upload, Azure Functions and Vercel).   *)
(*                                                                         *)
(* Two specifications share the variables:                                 *)
(*   Spec       runs of DocumentService against every fetch result          *)
(*   ProxySpec  requests to the four proxy handlers against every upstream  *)
(*              behaviour                                                   *)
(***************************************************************************)
EXTENDS Integers, Sequences, FiniteSets, TLC

(***************************************************************************)
(* Bounds of the model.                                                    *)
(***************************************************************************)
\* longest byte payload (document, PDF) that is enumerated
MaxLen == 1
\* number of exportToPDF / redactDocument runs on one DocumentService
MaxRuns == 2

(***************************************************************************)
(* JavaScript values.  Every value is a record tagged by t, so that values *)
(* of different JavaScript types can be compared.                          *)
(***************************************************************************)
Undef == [t |-> "undefined"]
Null == [t |-> "null"]
Bool(b) == [t |-> "boolean", v |-> b]
Num(n) == [t |-> "number", v |-> n]
Str(s) == [t |-> "string", v |-> s]
\* Buffer / ArrayBuffer / Blob content: a sequence of byte values
Bytes(b) == [t |-> "bytes", v |-> b]
\* a plain object: f maps its own property names to values
Obj(f) == [t |-> "object", f |-> f]
\* a File of the multipart body
FileV(name, type, data) == [t |-> "file", name |-> name, type |-> type, data |-> data]
\* a thrown Error that is not an AxiosError
Err(message) == [t |-> "error", message |-> message]

\* ToBoolean: the values JavaScript treats as false in !x, x || y, x ? a : b
Truthy(x) ==
  CASE x.t = "undefined" -> FALSE
    [] x.t = "null" -> FALSE
    [] x.t = "boolean" -> x.v
    [] x.t = "number" -> x.v # 0
    [] x.t = "string" -> x.v # ""
    [] OTHER -> TRUE

\* x || y
Or(x, y) == IF Truthy(x) THEN x ELSE y

\* o.k for a plain object (undefined when o has no such property)
Get(o, k) == IF o.t = "object" /\ k \in DOMAIN o.f THEN o.f[k] ELSE Undef

\* `${x}`: the string a template literal makes of a value
ToStr(x) ==
  CASE x.t = "string" -> x.v
    [] x.t = "undefined" -> "undefined"
    [] x.t = "null" -> "null"
    [] x.t = "boolean" -> (IF x.v THEN "true" ELSE "false")
    [] x.t = "number" -> ToString(x.v)
    [] OTHER -> "[object Object]"

\* {...a, ...b} for the property maps a and b
Spread(a, b) == [k \in (DOMAIN a) \cup (DOMAIN b) |-> IF k \in DOMAIN b THEN b[k] ELSE a[k]]

\* String.prototype.includes
Contains(s, sub) ==
  \E i \in 1..(Len(s) - Len(sub) + 1) : SubSeq(s, i, i + Len(sub) - 1) = sub

\* the byte values that are enumerated (Buffer elements are 0..255)
ByteVals == {0, 255}

RECURSIVE SeqsUpTo(_, _)
SeqsUpTo(S, n) ==
  IF n = 0 THEN {<<>>}
  ELSE LET shorter == SeqsUpTo(S, n - 1)
       IN shorter \cup {Append(s, x) : s \in {q \in shorter : Len(q) = n - 1}, x \in S}

ByteSeqs == SeqsUpTo(ByteVals, MaxLen)

\* variant of BufferFrom: the elements are read as signed 8-bit values
BufferFrom_Signed(b) == [i \in 1..Len(b) |-> IF b[i] % 256 > 127 THEN (b[i] % 256) - 256 ELSE b[i] % 256]

\* Buffer.from(x) for an ArrayBuffer, a Buffer or an array of numbers: the
\* elements taken modulo 256
BufferFrom(b) == [i \in 1..Len(b) |-> b[i] % 256]

(***************************************************************************)
(* JSON.stringify and JSON.parse.  Texts are real strings.  Properties are *)
(* written in the order of KeyOrder; a property whose value is undefined   *)
(* is left out, as JSON.stringify does.                                    *)
(***************************************************************************)
KeyOrder ==
  <<"success", "documentId", "document_id", "id", "error", "details",
    "action", "format", "ocr", "redact", "stripMetadata", "type", "data">>

RECURSIVE JoinNums(_)
JoinNums(s) ==
  IF Len(s) = 0 THEN ""
  ELSE IF Len(s) = 1 THEN ToString(s[1])
  ELSE ToString(s[1]) \o "," \o JoinNums(Tail(s))

RECURSIVE JSONstringify(_)
RECURSIVE StringifyProps(_, _, _)
StringifyProps(f, i, first) ==
  IF i > Len(KeyOrder) THEN ""
  ELSE LET k == KeyOrder[i]
       IN IF k \in DOMAIN f /\ f[k].t # "undefined"
          THEN (IF first THEN "" ELSE ",") \o "\"" \o k \o "\":" \o JSONstringify(f[k])
               \o StringifyProps(f, i + 1, FALSE)
          ELSE StringifyProps(f, i + 1, first)

JSONstringify(x) ==
  CASE x.t = "null" -> "null"
    [] x.t = "boolean" -> IF x.v THEN "true" ELSE "false"
    [] x.t = "number" -> ToString(x.v)
    [] x.t = "string" -> "\"" \o x.v \o "\""
    [] x.t = "bytes" -> "{\"type\":\"Buffer\",\"data\":[" \o JoinNums(x.v) \o "]}"
    [] x.t = "object" -> "{" \o StringifyProps(x.f, 1, TRUE) \o "}"
    [] OTHER -> "{}"

\* the object with its undefined-valued properties removed: what survives a
\* JSON.stringify / JSON.parse round trip
JsonNorm(x) ==
  IF x.t = "object"
  THEN Obj([k \in {j \in DOMAIN x.f : x.f[j].t # "undefined"} |-> x.f[k]])
  ELSE x

(***************************************************************************)
(* src/types/index.ts                                                      *)
(***************************************************************************)
API_ENDPOINTS == [BUILD |-> "/api/build", VIEWER_UPLOAD |-> "/api/viewer-upload"]

NoProps == [k \in {} |-> Undef]

\* ProcessingOptions objects a caller passes (ExportTab passes format and ocr,
\* RedactTab passes redact and stripMetadata, a test or script may pass {})
OptionSets ==
  { Obj(NoProps),
    Obj([format |-> Str("pdf"), ocr |-> Bool(FALSE)]),
    Obj([format |-> Str("pdf-a"), ocr |-> Bool(TRUE)]),
    Obj([redact |-> Bool(TRUE), stripMetadata |-> Bool(TRUE)]),
    Obj([redact |-> Bool(FALSE), stripMetadata |-> Bool(FALSE)]) }

(***************************************************************************)
(* DocumentService (client)                                                *)
(***************************************************************************)
\* the instructions object of exportToPDF
exportInstructions(options) ==
  Obj([format |-> Or(Get(options, "format"), Str("pdf")),
       ocr |-> Or(Get(options, "ocr"), Bool(FALSE)),
       redact |-> Or(Get(options, "redact"), Bool(FALSE)),
       stripMetadata |-> Or(Get(options, "stripMetadata"), Bool(FALSE))])

\* the instructions object of redactDocument
redactInstructions(options) ==
  Obj(Spread([action |-> Str("redact"),
              format |-> Str("pdf"),
              redact |-> Bool(TRUE),
              stripMetadata |-> Or(Get(options, "stripMetadata"), Bool(TRUE))],
             options.f))

\* the instructions object of importFromPDF
importInstructions(options) ==
  Obj(Spread([action |-> Str("import"),
              format |-> Str("docx"),
              ocr |-> Or(Get(options, "ocr"), Bool(FALSE))],
             options.f))

\* bodies a server behind /api/viewer-upload may answer with
ViewerBodies ==
  { Obj([success |-> Bool(TRUE), documentId |-> Str("doc123")]),
    Obj([success |-> Bool(TRUE)]),
    Obj([success |-> Bool(TRUE), documentId |-> Str("")]),
    Obj([success |-> Bool(FALSE), error |-> Str("Upload refused")]),
    Obj([success |-> Bool(FALSE), documentId |-> Str("doc123")]),
    Obj([documentId |-> Str("doc123")]),
    Obj([error |-> Str("Viewer API key not configured")]) }

\* the values whose serialisation JSON.parse recognises; any other text is
\* malformed
JsonUniverse ==
  {JsonNorm(exportInstructions(o)) : o \in OptionSets}
  \cup {JsonNorm(redactInstructions(o)) : o \in OptionSets}
  \cup {JsonNorm(importInstructions(o)) : o \in OptionSets}
  \cup ViewerBodies
  \cup {Obj([success |-> Bool(TRUE), documentId |-> Str(id)]) : id \in {"d-1", "i-2"}}
  \cup {Obj(NoProps), Null}

\* JSON.parse: the value whose serialisation the text is, or a SyntaxError
JSONparse(text) ==
  IF \E v \in JsonUniverse : JSONstringify(v) = text
  THEN [ok |-> TRUE, v |-> CHOOSE v \in JsonUniverse : JSONstringify(v) = text]
  ELSE [ok |-> FALSE, error |-> Err("Unexpected token in JSON")]

(***************************************************************************)
(* What the environment of the client can do.                              *)
(***************************************************************************)
\* results of Office.context.document.getFileAsync / file.getSliceAsync
DocumentResults ==
  {[file |-> "failed", slice |-> "failed", data |-> <<>>],
   [file |-> "succeeded", slice |-> "failed", data |-> <<>>]}
  \cup {[file |-> "succeeded", slice |-> "succeeded", data |-> d] : d \in ByteSeqs}

\* a body whose read (response.blob(), response.json()) rejects
Unreadable == [t |-> "unreadable"]

\* what fetch(BUILD) settles with: a rejection, or a Response
BuildFetchResults ==
  {[kind |-> "reject", status |-> 0, statusText |-> "", body |-> Unreadable]}
  \cup {[kind |-> "response", status |-> 200, statusText |-> "OK", body |-> b] :
          b \in {Bytes(d) : d \in ByteSeqs} \cup {Unreadable}}
  \cup UNION {{[kind |-> "response", status |-> st[1], statusText |-> x, body |-> Bytes(<<>>)] :
                 x \in {st[2], ""}} :
               st \in {<<400, "Bad Request">>, <<500, "Internal Server Error">>,
                       <<503, "Service Unavailable">>}}

\* what fetch(VIEWER_UPLOAD) settles with
ViewerFetchResults ==
  {[kind |-> "reject", status |-> 0, statusText |-> "", body |-> Unreadable]}
  \cup {[kind |-> "response", status |-> 200, statusText |-> "OK", body |-> b] :
          b \in {Str(JSONstringify(v)) : v \in ViewerBodies}
                \cup {Str("<html>Bad Gateway</html>"), Unreadable}}
  \cup {[kind |-> "response", status |-> st[1], statusText |-> st[2], body |-> Unreadable] :
          st \in {<<500, "Internal Server Error">>, <<503, "Service Unavailable">>}}

\* Response.ok: the status is in the range 200-299
ResponseOk(r) == r.status >= 200 /\ r.status <= 299

\* the message of the TypeError fetch rejects with
FetchRejectMessage == "Failed to fetch"

VARIABLES
  pc,            \* where the current run of the service stands
  op,            \* the method that is running: exportToPDF or redactDocument
  options,       \* its argument
  runs,          \* runs started on this service so far
  calls,         \* the fetch calls of the current run, in order
  buildResult,   \* what fetch(BUILD) settled with in this run
  viewerResult,  \* what fetch(VIEWER_UPLOAD) settled with in this run
  pdfBlob,       \* the conversion's bytes, once received
  pdfUrl,        \* the object URL made from them
  outcome,       \* the value the run resolved to (undefined while it runs)
  consoleWarn,   \* console.warn messages of the current run
  objectUrls,    \* URLs made by URL.createObjectURL and not revoked
  ppc,           \* where the proxy's current request stands
  handler,       \* the proxy handler that serves it
  apiKey,        \* the handler's credential in process.env
  request,       \* the inbound request
  upstreamReqs,  \* requests the handler sent upstream for this request
  upstreamResult,\* what the upstream call settled with
  response,      \* the handler's response
  state,         \* the App component's state (useState<AppState>)
  running,       \* the App handler that awaits the service, if any
  detectorStatus,\* the SideloadingDetector singleton's this.status
  detections,    \* where each detectSideloadingIssues call stands
  met,           \* what the latest detectSideloadingIssues call met in its environment
  callEnv,       \* what each detectSideloadingIssues call met in its environment
  resolved,      \* the status each call's promise resolved to, as it was then
  onReadyPending,\* callbacks given to Office.onReady and not invoked yet
  windowLocation,\* window.location of the add-in page
  officeHost     \* the host Office.onReady reports

clientVars ==
  <<pc, op, options, runs, calls, buildResult, viewerResult, pdfBlob, pdfUrl,
    outcome, consoleWarn, objectUrls>>
proxyVars == <<ppc, handler, apiKey, request, upstreamReqs, upstreamResult, response>>
appVars == <<state, running>>
detectorVars ==
  <<detectorStatus, detections, met, callEnv, resolved, onReadyPending, windowLocation,
    officeHost>>
vars == <<clientVars, proxyVars, appVars, detectorVars>>

None == [t |-> "none"]

\* getDocumentAsBlob: the promise's settlement for a result of Office.js
getDocumentAsBlob(res) ==
  IF res.file = "succeeded"
  THEN IF res.slice = "succeeded"
       THEN [ok |-> TRUE, v |-> Bytes(res.data), error |-> Undef]
       ELSE [ok |-> FALSE, v |-> Undef, error |-> Err("Failed to get document slice")]
  ELSE [ok |-> FALSE, v |-> Undef, error |-> Err("Failed to get document file")]

\* variant of FailureOutcome: the error is thrown on to the caller, so the
\* promise of the method rejects
FailureOutcome_Rethrow(error) == [t |-> "rejected", error |-> error]

\* the outer catch of exportToPDF / redactDocument: every thrown value here
\* is an Error, so its message is reported
FailureOutcome(error) ==
  Obj([success |-> Bool(FALSE), error |-> Str(error.message)])

\* variant of SuccessOutcome: the artifact reference is left out
SuccessOutcome_NoPdfUrl(url, vurl) ==
  Obj([success |-> Bool(TRUE), viewerUrl |-> vurl])

\* the value returned at the end of the try block
SuccessOutcome(url, vurl) ==
  Obj([success |-> Bool(TRUE), pdfUrl |-> url, viewerUrl |-> vurl])

\* the prefix of the error thrown for a non-ok response of fetch(BUILD)
BuildErrorPrefix(o) ==
  IF o = "exportToPDF" THEN "API call failed: " ELSE "Redaction failed: "

\* variant of BuildErrorMessage: the numeric status is reported instead of
\* the statusText
BuildErrorMessage_Status(o, r) == BuildErrorPrefix(o) \o ToString(r.status)

\* the message of that error: the prefix and the response's statusText
BuildErrorMessage(o, r) == BuildErrorPrefix(o) \o r.statusText

\* the instructions of the running method
InstructionsOf(o, opts) ==
  IF o = "exportToPDF" THEN exportInstructions(opts) ELSE redactInstructions(opts)

\* variant of BuildResponseRejected: response.ok is not looked at
BuildResponseRejected_Unchecked(r) == FALSE

\* `if (!response.ok) throw ...` after fetch(BUILD)
BuildResponseRejected(r) == ~ResponseOk(r)

\* variant of uploadToViewer: the body's documentId is not checked
uploadToViewer_NoIdCheck(r) ==
  IF r.kind = "reject"
  THEN [ok |-> FALSE, v |-> Undef, error |-> Err(FetchRejectMessage)]
  ELSE IF ~ResponseOk(r)
  THEN [ok |-> FALSE, v |-> Undef, error |-> Err("Viewer upload failed: " \o r.statusText)]
  ELSE IF r.body.t # "string" \/ ~JSONparse(r.body.v).ok
  THEN [ok |-> FALSE, v |-> Undef, error |-> Err("Unexpected token in JSON")]
  ELSE LET result == JSONparse(r.body.v).v
       IN IF ~Truthy(Get(result, "success"))
          THEN [ok |-> FALSE, v |-> Undef,
                error |-> Err(ToStr(Or(Get(result, "error"), Str("Failed to upload to viewer"))))]
          ELSE [ok |-> TRUE, v |-> Get(result, "documentId"), error |-> Undef]

\* uploadToViewer, from the settlement of its fetch on: the documentId it
\* returns or the Error it throws
uploadToViewer(r) ==
  IF r.kind = "reject"
  THEN [ok |-> FALSE, v |-> Undef, error |-> Err(FetchRejectMessage)]
  ELSE IF ~ResponseOk(r)
  THEN [ok |-> FALSE, v |-> Undef, error |-> Err("Viewer upload failed: " \o r.statusText)]
  ELSE IF r.body.t # "string" \/ ~JSONparse(r.body.v).ok
  THEN [ok |-> FALSE, v |-> Undef, error |-> Err("Unexpected token in JSON")]
  ELSE LET result == JSONparse(r.body.v).v
       IN IF ~Truthy(Get(result, "success")) \/ ~Truthy(Get(result, "documentId"))
          THEN [ok |-> FALSE, v |-> Undef,
                error |-> Err(ToStr(Or(Get(result, "error"), Str("Failed to upload to viewer"))))]
          ELSE [ok |-> TRUE, v |-> Get(result, "documentId"), error |-> Undef]

\* variant of ViewerUrlAfter: the URL is built from whatever uploadToViewer
\* left, also after it threw
ViewerUrlAfter_Unconditional(up) ==
  Str("https://viewer.nutrient.io/documents/" \o ToStr(up.v))

\* the inner try/catch around uploadToViewer: the viewerUrl it leaves
ViewerUrlAfter(up) ==
  IF up.ok THEN Str("https://viewer.nutrient.io/documents/" \o ToStr(up.v)) ELSE Null

\* the console.warn of the inner catch
WarnAfter(up) ==
  IF up.ok THEN <<>> ELSE <<"Failed to upload to viewer: " \o up.error.message>>

\* URL.createObjectURL: a URL no earlier call returned
createObjectURL(n) == Str("blob:" \o ToString(n))

\* the message of the error a failed body read rejects with
BodyReadMessage == "Failed to read response body"

\* variant of OutcomeAfterViewer: the error of uploadToViewer is not caught
\* by the inner try and reaches the outer catch
OutcomeAfterViewer_Rethrow(url, up) ==
  IF up.ok THEN SuccessOutcome(url, ViewerUrlAfter(up)) ELSE FailureOutcome(up.error)

\* the return statement after the inner try/catch
OutcomeAfterViewer(url, up) == SuccessOutcome(url, ViewerUrlAfter(up))

\* variant of FetchCall: the file part is appended without its content
FetchCall_EmptyFile(endpoint, file, filename, instructions) ==
  [endpoint |-> endpoint, file |-> Bytes(<<>>), filename |-> filename,
   instructions |-> instructions]

\* the FormData of a fetch: its file part and, for BUILD, its instructions
FetchCall(endpoint, file, filename, instructions) ==
  [endpoint |-> endpoint, file |-> file, filename |-> filename,
   instructions |-> instructions]

ClientInit ==
  /\ pc = "idle"
  /\ op = "none"
  /\ options = Obj(NoProps)
  /\ runs = 0
  /\ calls = <<>>
  /\ buildResult = None
  /\ viewerResult = None
  /\ pdfBlob = None
  /\ pdfUrl = None
  /\ outcome = Undef
  /\ consoleWarn = <<>>
  /\ objectUrls = {}

\* the proxy takes no step in Spec
ProxyParked ==
  /\ ppc = "idle"
  /\ handler = "none"
  /\ apiKey = Undef
  /\ request = None
  /\ upstreamReqs = <<>>
  /\ upstreamResult = None
  /\ response = None

\* the initial state of the App component
AppInit ==
  /\ state = [isLoading |-> FALSE,
              currentTab |-> "export",
              status |-> [type |-> Null, message |-> ""],
              pdfUrl |-> Null,
              viewerUrl |-> Null]
  /\ running = "none"

\* calls of detectSideloadingIssues in one behaviour
MaxDetections == 2

Detections == 1..MaxDetections

\* window.location of the page: the development address, the same over
\* https, another port, another host
Locations ==
  {[protocol |-> "http:", hostname |-> "localhost", port |-> "3000"],
   [protocol |-> "https:", hostname |-> "localhost", port |-> "3000"],
   [protocol |-> "http:", hostname |-> "localhost", port |-> "3001"],
   [protocol |-> "http:", hostname |-> "example.com", port |-> "3000"]}

\* Office.HostType values Office.onReady reports
HostTypes == {"Word", "Excel"}

initializeStatus ==
  [isOfficeAvailable |-> FALSE,
   isWordEnvironment |-> FALSE,
   isServerRunning |-> FALSE,
   isManifestValid |-> FALSE,
   hasProtocolMismatch |-> FALSE,
   hasPortMismatch |-> FALSE,
   hasContainerElement |-> FALSE,
   issues |-> <<>>,
   recommendations |-> <<>>]

\* the singleton as getInstance constructs it, on a page and in a host
DetectorConstructed ==
  /\ detectorStatus = initializeStatus
  /\ detections = [d \in Detections |-> "idle"]
  /\ met = None
  /\ callEnv = [d \in Detections |-> None]
  /\ resolved = [d \in Detections |-> None]
  /\ onReadyPending = 0
  /\ windowLocation \in Locations
  /\ officeHost \in HostTypes

\* the detector takes no step in the specifications of the service, the
\* proxy and the App: it stays as constructed, on the development page in Word
DetectorParked ==
  /\ DetectorConstructed
  /\ windowLocation = [protocol |-> "http:", hostname |-> "localhost", port |-> "3000"]
  /\ officeHost = "Word"

Init == ClientInit /\ AppInit /\ ProxyParked /\ DetectorParked

\* a caller invokes exportToPDF(opts) or redactDocument(opts); the method
\* calls getDocumentAsBlob and awaits it
Start(o, opts) ==
  /\ pc \in {"idle", "done"}
  /\ runs < MaxRuns
  /\ pc' = "getDocument"
  /\ op' = o
  /\ options' = opts
  /\ runs' = runs + 1
  /\ calls' = <<>>
  /\ buildResult' = None
  /\ viewerResult' = None
  /\ pdfBlob' = None
  /\ pdfUrl' = None
  /\ outcome' = Undef
  /\ consoleWarn' = <<>>
  /\ UNCHANGED <<objectUrls, proxyVars>>

\* getDocumentAsBlob settles: on rejection the outer catch returns; otherwise
\* the FormData is built and fetch(BUILD) is called
DocumentSettles(res) ==
  /\ pc = "getDocument"
  /\ LET d == getDocumentAsBlob(res)
     IN IF d.ok
        THEN /\ calls' = Append(calls,
                           FetchCall(API_ENDPOINTS.BUILD, d.v, "document.docx",
                                     Str(JSONstringify(InstructionsOf(op, options)))))
             /\ pc' = "build"
             /\ outcome' = outcome
        ELSE /\ outcome' = FailureOutcome(d.error)
             /\ pc' = "done"
             /\ calls' = calls
  /\ UNCHANGED <<op, options, runs, buildResult, viewerResult, pdfBlob, pdfUrl,
                 consoleWarn, objectUrls, proxyVars>>

\* variant of BuildSettles: a failed fetch(BUILD) is attempted a second time
\* before the run gives up
BuildSettles_Retry(r) ==
  /\ pc = "build"
  /\ buildResult' = r
  /\ IF (r.kind = "reject" \/ ~ResponseOk(r)) /\ Len(calls) = 1
     THEN /\ calls' = Append(calls, calls[1])
          /\ pc' = "build"
          /\ UNCHANGED <<outcome, pdfBlob, pdfUrl, objectUrls>>
     ELSE IF r.kind = "reject" \/ ~ResponseOk(r) \/ r.body.t # "bytes"
     THEN /\ outcome' = FailureOutcome(Err(BuildErrorMessage(op, r)))
          /\ pc' = "done"
          /\ UNCHANGED <<calls, pdfBlob, pdfUrl, objectUrls>>
     ELSE /\ pdfBlob' = r.body
          /\ pdfUrl' = createObjectURL(runs)
          /\ objectUrls' = objectUrls \cup {createObjectURL(runs)}
          /\ calls' = Append(calls,
                        FetchCall(API_ENDPOINTS.VIEWER_UPLOAD, r.body, "document.pdf", Undef))
          /\ pc' = "viewer"
          /\ outcome' = outcome
  /\ UNCHANGED <<op, options, runs, viewerResult, consoleWarn, proxyVars>>

\* fetch(BUILD) settles: a rejection, a non-ok response or an unreadable body
\* ends the run in the outer catch; otherwise the blob is read, its object
\* URL is made and uploadToViewer calls fetch(VIEWER_UPLOAD)
BuildSettles(r) ==
  /\ pc = "build"
  /\ buildResult' = r
  /\ IF r.kind = "reject"
     THEN /\ outcome' = FailureOutcome(Err(FetchRejectMessage))
          /\ pc' = "done"
          /\ UNCHANGED <<calls, pdfBlob, pdfUrl, objectUrls>>
     ELSE IF BuildResponseRejected(r)
     THEN /\ outcome' = FailureOutcome(Err(BuildErrorMessage(op, r)))
          /\ pc' = "done"
          /\ UNCHANGED <<calls, pdfBlob, pdfUrl, objectUrls>>
     ELSE IF r.body.t # "bytes"
     THEN /\ outcome' = FailureOutcome(Err(BodyReadMessage))
          /\ pc' = "done"
          /\ UNCHANGED <<calls, pdfBlob, pdfUrl, objectUrls>>
     ELSE /\ pdfBlob' = r.body
          /\ pdfUrl' = createObjectURL(runs)
          /\ objectUrls' = objectUrls \cup {createObjectURL(runs)}
          /\ calls' = Append(calls,
                        FetchCall(API_ENDPOINTS.VIEWER_UPLOAD, r.body, "document.pdf", Undef))
          /\ pc' = "viewer"
          /\ outcome' = outcome
  /\ UNCHANGED <<op, options, runs, viewerResult, consoleWarn, proxyVars>>

\* fetch(VIEWER_UPLOAD) settles: uploadToViewer returns or throws, the inner
\* catch logs, and the method returns
ViewerSettles(r) ==
  /\ pc = "viewer"
  /\ viewerResult' = r
  /\ LET up == uploadToViewer(r)
     IN /\ outcome' = OutcomeAfterViewer(pdfUrl, up)
        /\ consoleWarn' = consoleWarn \o WarnAfter(up)
  /\ pc' = "done"
  /\ UNCHANGED <<op, options, runs, calls, buildResult, pdfBlob, pdfUrl, objectUrls,
                 proxyVars>>

Next ==
  \/ \E o \in {"exportToPDF", "redactDocument"}, opts \in OptionSets :
       Start(o, opts) /\ UNCHANGED <<appVars, detectorVars>>
  \/ \E res \in DocumentResults : DocumentSettles(res) /\ UNCHANGED <<appVars, detectorVars>>
  \/ \E r \in BuildFetchResults : BuildSettles(r) /\ UNCHANGED <<appVars, detectorVars>>
  \/ \E r \in ViewerFetchResults : ViewerSettles(r) /\ UNCHANGED <<appVars, detectorVars>>

Spec == Init /\ [][Next]_vars

(***************************************************************************)
(* Properties of DocumentService (checked under Spec).                     *)
(***************************************************************************)
\* the run has returned
Finished == pc = "done"

\* outcome.k is there with a usable value (not undefined, null or "")
Present(o, k) == Truthy(Get(o, k))

\* fetch(BUILD) resolved with an ok response whose body was read
ConversionSucceeded ==
  /\ buildResult # None
  /\ buildResult.kind = "response"
  /\ buildResult.status \in 200..299
  /\ buildResult.body.t = "bytes"

\* fetch(BUILD) rejected or resolved with a non-ok response
ConversionCallFailed ==
  /\ buildResult # None
  /\ \/ buildResult.kind = "reject"
     \/ buildResult.status \notin 200..299

\* the Preview Relay call did not deliver a document id: rejected fetch, HTTP
\* error status, a body that is no JSON, success not true, or no documentId
PreviewCallFailed ==
  /\ viewerResult # None
  /\ \/ viewerResult.kind = "reject"
     \/ viewerResult.status \notin 200..299
     \/ viewerResult.body.t # "string"
     \/ ~JSONparse(viewerResult.body.v).ok
     \/ LET b == JSONparse(viewerResult.body.v).v
        IN \/ Get(b, "success") # Bool(TRUE)
           \/ Get(b, "documentId").t # "string"
           \/ Get(b, "documentId") = Str("")

ViewerUploadCalled ==
  \E i \in 1..Len(calls) : calls[i].endpoint = API_ENDPOINTS.VIEWER_UPLOAD

\* C1: whenever document retrieval and the conversion call succeeded, the
\* returned outcome has success = true and a pdfUrl, whatever the Preview
\* Relay call resulted in.
C1_ConversionSuccessGivesArtifact ==
  (Finished /\ ConversionSucceeded) =>
    (Get(outcome, "success") = Bool(TRUE) /\ Present(outcome, "pdfUrl"))

\* C1 witness: a finished run whose conversion succeeded and whose preview
\* call was answered with an HTTP error status
C1_Witness ==
  /\ Finished
  /\ ConversionSucceeded
  /\ viewerResult # None
  /\ viewerResult.kind = "response"
  /\ viewerResult.status = 503

\* C2: if the conversion call fails (rejected fetch or non-ok response), the
\* run has ended with success = false and /api/viewer-upload has not been
\* called in that run.
C2_ConversionFailureStopsRun ==
  ConversionCallFailed =>
    (Finished /\ Get(outcome, "success") = Bool(FALSE) /\ ~ViewerUploadCalled)

\* C2 witness: a run of redactDocument ended by a 503 of the conversion proxy
C2_Witness ==
  /\ Finished
  /\ op = "redactDocument"
  /\ buildResult # None
  /\ buildResult.kind = "response"
  /\ buildResult.status = 503
  /\ Len(calls) = 1

ReportsStatus(o, n) ==
  \/ Get(o, "status") = Num(n)
  \/ Get(o, "statusCode") = Num(n)
  \/ (Get(o, "error").t = "string" /\ Contains(Get(o, "error").v, ToString(n)))

\* C4 as stated: when the conversion proxy answers with an error status the
\* outcome has success = false and reports that status code.
C4_StatusPassThrough ==
  (Finished /\ buildResult # None /\ buildResult.kind = "response"
     /\ buildResult.status \notin 200..299) =>
    /\ Get(outcome, "success") = Bool(FALSE)
    /\ ReportsStatus(outcome, buildResult.status)

\* C4 amended: when the conversion proxy answers with an error status the
\* outcome has success = false and an error message made of the method's
\* prefix and the response's statusText; the outcome has no other property,
\* so the numeric status code is not passed on.
C4_StatusTextReported ==
  (Finished /\ buildResult # None /\ buildResult.kind = "response"
     /\ buildResult.status \notin 200..299) =>
    /\ Get(outcome, "success") = Bool(FALSE)
    /\ DOMAIN outcome.f = {"success", "error"}
    /\ Get(outcome, "error") =
         Str((IF op = "exportToPDF" THEN "API call failed: " ELSE "Redaction failed: ")
             \o buildResult.statusText)

\* C4 witness: exportToPDF ended by a 503 Service Unavailable
C4_Witness ==
  /\ Finished
  /\ op = "exportToPDF"
  /\ buildResult # None
  /\ buildResult.status = 503
  /\ buildResult.statusText = "Service Unavailable"
  /\ Get(outcome, "error") = Str("API call failed: Service Unavailable")

\* C5: every returned outcome has a pdfUrl when success is true, and neither
\* a pdfUrl nor a viewerUrl when success is false; the viewerUrl may be
\* missing when success is true.
C5_OutcomeShape ==
  (outcome # Undef) =>
    /\ Get(outcome, "success").t = "boolean"
    /\ (Get(outcome, "success") = Bool(TRUE) => Present(outcome, "pdfUrl"))
    /\ (Get(outcome, "success") = Bool(FALSE) =>
          (~Present(outcome, "pdfUrl") /\ ~Present(outcome, "viewerUrl")))

\* C5 witness: a successful outcome without a preview URL
C5_Witness ==
  /\ Finished
  /\ Get(outcome, "success") = Bool(TRUE)
  /\ Present(outcome, "pdfUrl")
  /\ ~Present(outcome, "viewerUrl")

(***************************************************************************)
(* The proxy handlers: build and viewer-upload, as Azure Functions         *)
(* (azure-functions/src) and as Vercel functions (api/).                   *)
(***************************************************************************)
\* axios timeout of the build handlers, in ms
BUILD_TIMEOUT == 300000
\* axios timeout of the viewer-upload handlers, in ms
VIEWER_TIMEOUT == 60000

NUTRIENT_BUILD_URL == "https://api.nutrient.io/build"
NUTRIENT_VIEWER_URL == "https://api.nutrient.io/viewer/documents"
DOCX_TYPE == "application/vnd.openxmlformats-officedocument.wordprocessingml.document"

NoHeaders == [k \in {} |-> ""]

Respond(status, headers, body) == [status |-> status, headers |-> headers, body |-> body]

\* an Azure handler's `return { status, body: JSON.stringify(obj) }`
AzureJson(status, obj) == Respond(status, NoHeaders, Str(JSONstringify(obj)))

\* a Vercel handler's `res.status(status).json(obj)`
VercelJson(status, obj) ==
  Respond(status, "Content-Type" :> "application/json; charset=utf-8",
          Str(JSONstringify(obj)))

\* variant of ApiKeyMissing: only an unset variable counts (apiKey === undefined)
ApiKeyMissing_UnsetOnly(key) == key.t = "undefined"

\* `if (!apiKey)`
ApiKeyMissing(key) == ~Truthy(key)

\* what the handler's function has done when it reaches its first await of
\* axios or returns before it: a response, or the upstream request it sent
Responded(r) == [done |-> TRUE, response |-> r, upstream |-> None]
Sent(u) == [done |-> FALSE, response |-> None, upstream |-> u]

\* the catch block's branch for an error that is not an AxiosError
InternalError(platform, error) ==
  LET obj == Obj([error |-> Str("Internal server error"), details |-> Str(error.message)])
  IN IF platform = "azure" THEN AzureJson(500, obj) ELSE VercelJson(500, obj)

\* file.name.replace(/\.[^/.]+$/, '.pdf'): the last "." and what follows it
\* is replaced when at least one character follows and none of them is "/"
ReplaceExtension(name) ==
  LET dots == {i \in 1..Len(name) : SubSeq(name, i, i) = "."}
  IN IF dots = {} THEN name
     ELSE LET last == CHOOSE i \in dots : \A j \in dots : j <= i
          IN IF last < Len(name)
                /\ \A j \in (last + 1)..Len(name) : SubSeq(name, j, j) # "/"
             THEN SubSeq(name, 1, last - 1) \o ".pdf"
             ELSE name

\* the bytes Buffer.from(str) makes of a string of the characters used here
CharCode(c) == CASE c = "A" -> 65 [] c = "B" -> 66 [] OTHER -> 63
Utf8(str) == [i \in 1..Len(str) |-> CharCode(SubSeq(str, i, i))]

\* Buffer.from(x) as the Vercel handlers call it on `file.data || file`: a
\* Buffer or a string is converted, a plain object makes it throw a TypeError
BufferFromValue(x) ==
  CASE x.t = "bytes" -> [ok |-> TRUE, v |-> BufferFrom(x.v), error |-> Undef]
    [] x.t = "string" -> [ok |-> TRUE, v |-> Utf8(x.v), error |-> Undef]
    [] OTHER -> [ok |-> FALSE, v |-> <<>>,
                 error |-> Err("The first argument must be of type string or an instance of Buffer")]

\* the axios.post call of a build handler
BuildUpstreamRequest(key, buffer, filename, contentType, instructions) ==
  [url |-> NUTRIENT_BUILD_URL,
   file |-> buffer, filename |-> filename, contentType |-> contentType,
   headers |-> ("Authorization" :> ("Bearer " \o ToStr(key)))
               @@ ("x-instructions" :> JSONstringify(instructions))
               @@ ("x-filename" :> filename),
   responseType |-> "arraybuffer",
   timeout |-> BUILD_TIMEOUT]

\* the axios.post call of a viewer-upload handler
ViewerUpstreamRequest(key, buffer, filename, contentType) ==
  [url |-> NUTRIENT_VIEWER_URL,
   file |-> buffer, filename |-> filename, contentType |-> contentType,
   headers |-> ("Authorization" :> ("Bearer " \o ToStr(key))),
   responseType |-> "json",
   timeout |-> VIEWER_TIMEOUT]

\* the message of an AxiosError
AxiosMessage(up) ==
  IF up.kind = "httpError"
  THEN "Request failed with status code " \o ToString(up.status)
  ELSE up.message

\* variant of AxiosErrorStatus: every upstream failure is answered 500
AxiosErrorStatus_Always500(up) == 500

\* `error.response?.status || 500`
AxiosErrorStatus(up) ==
  IF up.kind = "httpError" THEN Or(Num(up.status), Num(500)).v ELSE 500

\* variant of AxiosErrorDetails: the message is followed by the request's
\* Authorization header, as in a serialised AxiosError (its config.headers)
AxiosErrorDetails_WithConfig(up) ==
  Str(AxiosMessage(up) \o " " \o upstreamReqs[1].headers["Authorization"])

\* `error.response?.data || error.message`
AxiosErrorDetails(up) ==
  IF up.kind = "httpError" THEN Or(up.data, Str(AxiosMessage(up))) ELSE Str(AxiosMessage(up))

\* the catch block's branch for an AxiosError
AxiosErrorResponse(platform, label, up) ==
  LET obj == Obj([error |-> Str(label), details |-> AxiosErrorDetails(up)])
  IN IF platform = "azure"
     THEN AzureJson(AxiosErrorStatus(up), obj)
     ELSE VercelJson(AxiosErrorStatus(up), obj)

\* formData.get(name): null when the form has no such part
FormGet(form, name) == IF name \in DOMAIN form.f THEN form.f[name] ELSE Null

\* --- azure-functions: app.http('build') --------------------------------
\* the handler up to its axios.post (or its early return)
azureBuildBefore(key, req) ==
  IF ApiKeyMissing(key)
  THEN Responded(AzureJson(500, Obj([error |-> Str("API key not configured")])))
  ELSE IF req.form.t # "object"
  THEN Responded(InternalError("azure", Err("Failed to parse body as FormData.")))
  ELSE LET fileEntry == FormGet(req.form, "file")
           instructionsStr == FormGet(req.form, "instructions")
       IN IF ~Truthy(fileEntry) \/ fileEntry.t # "file"
          THEN Responded(AzureJson(400, Obj([error |-> Str("No valid file provided")])))
          ELSE IF ~Truthy(instructionsStr)
          THEN Responded(AzureJson(400, Obj([error |-> Str("No instructions provided")])))
          ELSE LET parsed == JSONparse(ToStr(instructionsStr))
               IN IF ~parsed.ok
                  THEN Responded(InternalError("azure", parsed.error))
                  ELSE Sent(BuildUpstreamRequest(key, BufferFrom(fileEntry.data),
                                                 fileEntry.name, fileEntry.type, parsed.v))

\* the handler from the settlement of axios.post on
azureBuildAfter(req, up) ==
  IF up.kind = "ok"
  THEN Respond(200,
               ("Content-Type" :> "application/pdf")
               @@ ("Content-Disposition" :>
                     ("attachment; filename=\"" \o
                      ReplaceExtension(FormGet(req.form, "file").name) \o "\"")),
               Bytes(BufferFrom(up.data.v)))
  ELSE AxiosErrorResponse("azure", "Nutrient.io API error", up)

\* --- azure-functions: app.http('viewer-upload') ------------------------
azureViewerUploadBefore(key, req) ==
  IF ApiKeyMissing(key)
  THEN Responded(AzureJson(500, Obj([error |-> Str("Viewer API key not configured")])))
  ELSE IF req.form.t # "object"
  THEN Responded(InternalError("azure", Err("Failed to parse body as FormData.")))
  ELSE LET fileEntry == FormGet(req.form, "file")
       IN IF ~Truthy(fileEntry) \/ fileEntry.t # "file"
          THEN Responded(AzureJson(400, Obj([error |-> Str("No valid file provided")])))
          ELSE Sent(ViewerUpstreamRequest(key, BufferFrom(fileEntry.data),
                                          fileEntry.name, fileEntry.type))

\* `response.data.document_id || response.data.id`; reading a property of
\* null or undefined throws a TypeError
DocumentIdOf(data) ==
  IF data.t \in {"null", "undefined"}
  THEN [ok |-> FALSE, v |-> Undef,
        error |-> Err("Cannot read properties of null (reading 'document_id')")]
  ELSE [ok |-> TRUE, v |-> Or(Get(data, "document_id"), Get(data, "id")), error |-> Undef]

azureViewerUploadAfter(req, up) ==
  IF up.kind = "ok"
  THEN LET id == DocumentIdOf(up.data)
       IN IF id.ok
          THEN Respond(200, "Content-Type" :> "application/json",
                       Str(JSONstringify(Obj([success |-> Bool(TRUE), documentId |-> id.v]))))
          ELSE InternalError("azure", id.error)
  ELSE AxiosErrorResponse("azure", "Nutrient.io Viewer API error", up)

\* --- api/build.ts (Vercel) -----------------------------------------------
vercelBuildBefore(key, req) ==
  IF req.method # "POST"
  THEN Responded(VercelJson(405, Obj([error |-> Str("Method not allowed")])))
  ELSE IF ApiKeyMissing(key)
  THEN Responded(VercelJson(500, Obj([error |-> Str("API key not configured")])))
  ELSE IF req.body.t \in {"undefined", "null"}
  THEN Responded(InternalError("vercel",
                   Err("Cannot read properties of undefined (reading 'file')")))
  ELSE LET file == Get(req.body, "file")
           instructionsStr == Get(req.body, "instructions")
       IN IF ~Truthy(file)
          THEN Responded(VercelJson(400, Obj([error |-> Str("No file provided")])))
          ELSE IF ~Truthy(instructionsStr)
          THEN Responded(VercelJson(400, Obj([error |-> Str("No instructions provided")])))
          ELSE LET parsed == JSONparse(ToStr(instructionsStr))
                   buffer == BufferFromValue(Or(Get(file, "data"), file))
               IN IF ~parsed.ok
                  THEN Responded(InternalError("vercel", parsed.error))
                  ELSE IF ~buffer.ok
                  THEN Responded(InternalError("vercel", buffer.error))
                  ELSE Sent(BuildUpstreamRequest(key, buffer.v,
                              ToStr(Or(Get(file, "name"), Str("document.docx"))),
                              ToStr(Or(Get(file, "type"), Str(DOCX_TYPE))),
                              parsed.v))

vercelBuildAfter(req, up) ==
  IF up.kind = "ok"
  THEN Respond(200,
               ("Content-Type" :> "application/pdf")
               @@ ("Content-Disposition" :>
                     ("attachment; filename=\"" \o
                      ReplaceExtension(ToStr(Or(Get(Get(req.body, "file"), "name"),
                                                Str("document")))) \o "\"")),
               Bytes(BufferFrom(up.data.v)))
  ELSE AxiosErrorResponse("vercel", "Nutrient.io API error", up)

\* --- api/viewer-upload.ts (Vercel) ---------------------------------------
vercelViewerUploadBefore(key, req) ==
  IF req.method # "POST"
  THEN Responded(VercelJson(405, Obj([error |-> Str("Method not allowed")])))
  ELSE IF ApiKeyMissing(key)
  THEN Responded(VercelJson(500, Obj([error |-> Str("Viewer API key not configured")])))
  ELSE IF req.body.t \in {"undefined", "null"}
  THEN Responded(InternalError("vercel",
                   Err("Cannot read properties of undefined (reading 'file')")))
  ELSE LET file == Get(req.body, "file")
           buffer == BufferFromValue(Or(Get(file, "data"), file))
       IN IF ~Truthy(file)
          THEN Responded(VercelJson(400, Obj([error |-> Str("No file provided")])))
          ELSE IF ~buffer.ok
          THEN Responded(InternalError("vercel", buffer.error))
          ELSE Sent(ViewerUpstreamRequest(key, buffer.v,
                      ToStr(Or(Get(file, "name"), Str("document.pdf"))),
                      ToStr(Or(Get(file, "type"), Str("application/pdf")))))

vercelViewerUploadAfter(req, up) ==
  IF up.kind = "ok"
  THEN LET id == DocumentIdOf(up.data)
       IN IF id.ok
          THEN Respond(200, "Content-Type" :> "application/json; charset=utf-8",
                       Str(JSONstringify(Obj([success |-> Bool(TRUE), documentId |-> id.v]))))
          ELSE InternalError("vercel", id.error)
  ELSE AxiosErrorResponse("vercel", "Nutrient.io Viewer API error", up)

(***************************************************************************)
(* The environment of the proxy: inbound requests and the upstream.        *)
(***************************************************************************)
Handlers == {"azureBuild", "azureViewerUpload", "vercelBuild", "vercelViewerUpload"}
IsBuild(h) == h \in {"azureBuild", "vercelBuild"}
IsAzure(h) == h \in {"azureBuild", "azureViewerUpload"}

\* values of NUTRIENT_API_KEY / NUTRIENT_VIEWER_API_KEY in process.env
ApiKeys == {Undef, Str(""), Str("pdf_live_KEY1"), Str("pdf_live_KEY2")}

FileNames == {"report.docx", "scan"}

\* texts sent as the instructions part
InstructionTexts ==
  {"", "{not json",
   JSONstringify(JsonNorm(exportInstructions(Obj(NoProps)))),
   JSONstringify(Obj(NoProps))}

\* the body of an Azure request whose request.formData() rejects
Unparseable == [t |-> "unparseable"]

\* bodies of requests to an Azure handler, as request.formData() yields them
AzureForms ==
  LET files == {Str("plain text field")}
               \cup {FileV(n, DOCX_TYPE, d) : n \in FileNames, d \in ByteSeqs}
      withFile == {[k \in {"file"} |-> f] : f \in files}
      instr == {[k \in {"instructions"} |-> Str(i)] : i \in InstructionTexts}
  IN {Unparseable}
     \cup {Obj(NoProps)}
     \cup {Obj(f) : f \in withFile}
     \cup {Obj(i) : i \in instr}
     \cup {Obj(f @@ i) : f \in withFile, i \in instr}

\* req.body of requests to a Vercel handler
VercelBodies ==
  LET files == {Str("AB")}
               \cup {Bytes(d) : d \in ByteSeqs}
               \cup {Obj([name |-> Str(n), type |-> Str(DOCX_TYPE)]) : n \in FileNames}
               \cup {Obj([data |-> Bytes(d), name |-> Str(n)]) : n \in FileNames, d \in ByteSeqs}
      withFile == {[k \in {"file"} |-> f] : f \in files}
      instr == {[k \in {"instructions"} |-> Str(i)] : i \in InstructionTexts}
  IN {Undef}
     \cup {Obj(NoProps)}
     \cup {Obj(f) : f \in withFile}
     \cup {Obj(i) : i \in instr}
     \cup {Obj(f @@ i) : f \in withFile, i \in instr}

\* the requests a handler can receive.  The Azure runtime routes only POST
\* to the handlers (methods: ['POST']).
RequestsOf(h) ==
  IF IsAzure(h)
  THEN {[method |-> "POST", form |-> f, body |-> None] : f \in AzureForms}
  ELSE {[method |-> m, form |-> None, body |-> b] : m \in {"POST", "GET"}, b \in VercelBodies}

\* response bodies of the upstream viewer API on success
UpstreamViewerData ==
  { Obj([document_id |-> Str("d-1")]),
    Obj([id |-> Str("i-2")]),
    Obj([document_id |-> Str("d-1"), id |-> Str("i-2")]),
    Obj([document_id |-> Str(""), id |-> Str("i-2")]),
    Obj(NoProps),
    Str(""),
    Null }

\* what axios.post settles with: a 2xx response ("ok"; "echo" is an upstream
\* that answers with the bytes it was sent), an AxiosError with a response
\* ("httpError") or one without (timeout, network failure)
UpstreamResults(h) ==
  {[kind |-> "noResponse", status |-> 0, data |-> Undef, echo |-> FALSE, message |-> m] :
     m \in {"Network Error",
            "timeout of " \o ToString(IF IsBuild(h) THEN BUILD_TIMEOUT ELSE VIEWER_TIMEOUT)
              \o "ms exceeded"}}
  \cup {[kind |-> "httpError", status |-> st, data |-> d, echo |-> FALSE, message |-> ""] :
          st \in {401, 503},
          d \in IF IsBuild(h)
                THEN {Bytes(<<>>), Bytes(<<255>>)}
                ELSE {Str(""), Str("Service Unavailable"),
                      Obj([error |-> Str("invalid token")])}}
  \cup {[kind |-> "ok", status |-> 200, data |-> d, echo |-> FALSE, message |-> ""] :
          d \in IF IsBuild(h) THEN {Bytes(b) : b \in ByteSeqs} ELSE UpstreamViewerData}
  \cup (IF IsBuild(h)
        THEN {[kind |-> "echo", status |-> 200, data |-> Undef, echo |-> TRUE, message |-> ""]}
        ELSE {})

\* the settlement of an echoing upstream for the request it was sent
Settlement(up, sent) ==
  IF up.kind = "echo" THEN [up EXCEPT !.kind = "ok", !.data = Bytes(sent.file)] ELSE up

HandlerBefore(h, key, req) ==
  CASE h = "azureBuild" -> azureBuildBefore(key, req)
    [] h = "azureViewerUpload" -> azureViewerUploadBefore(key, req)
    [] h = "vercelBuild" -> vercelBuildBefore(key, req)
    [] h = "vercelViewerUpload" -> vercelViewerUploadBefore(key, req)

HandlerAfter(h, req, up) ==
  CASE h = "azureBuild" -> azureBuildAfter(req, up)
    [] h = "azureViewerUpload" -> azureViewerUploadAfter(req, up)
    [] h = "vercelBuild" -> vercelBuildAfter(req, up)
    [] h = "vercelViewerUpload" -> vercelViewerUploadAfter(req, up)

\* the client takes no step in ProxySpec
ClientParked == ClientInit /\ AppInit /\ DetectorParked

ProxyInit ==
  /\ ClientParked
  /\ ppc = "idle"
  /\ handler = "none"
  /\ apiKey \in ApiKeys
  /\ request = None
  /\ upstreamReqs = <<>>
  /\ upstreamResult = None
  /\ response = None

\* a request arrives at handler h, which runs up to its response or to its
\* axios.post
Request(h, req) ==
  /\ ppc = "idle"
  /\ handler' = h
  /\ request' = req
  /\ upstreamResult' = None
  /\ LET b == HandlerBefore(h, apiKey, req)
     IN IF b.done
        THEN /\ response' = b.response
             /\ upstreamReqs' = <<>>
             /\ ppc' = "responded"
        ELSE /\ response' = None
             /\ upstreamReqs' = <<b.upstream>>
             /\ ppc' = "upstream"
  /\ UNCHANGED <<apiKey, clientVars, appVars, detectorVars>>

\* axios.post settles and the handler builds its response
UpstreamSettles(up) ==
  /\ ppc = "upstream"
  /\ LET settled == Settlement(up, upstreamReqs[Len(upstreamReqs)])
     IN /\ upstreamResult' = settled
        /\ response' = HandlerAfter(handler, request, settled)
  /\ ppc' = "responded"
  /\ UNCHANGED <<handler, apiKey, request, upstreamReqs, clientVars, appVars, detectorVars>>

\* the response is delivered; the handler keeps nothing between requests
Complete ==
  /\ ppc = "responded"
  /\ ppc' = "idle"
  /\ handler' = "none"
  /\ request' = None
  /\ upstreamReqs' = <<>>
  /\ upstreamResult' = None
  /\ response' = None
  /\ UNCHANGED <<apiKey, clientVars, appVars, detectorVars>>

ProxyNext ==
  \/ \E h \in Handlers : \E req \in RequestsOf(h) : Request(h, req)
  \/ \E up \in UpstreamResults(handler) : UpstreamSettles(up)
  \/ Complete

ProxySpec == ProxyInit /\ [][ProxyNext]_vars

(***************************************************************************)
(* Properties of the proxy handlers (checked under ProxySpec).             *)
(***************************************************************************)
HandlerResponded == ppc = "responded"

CredentialPresent == Truthy(apiKey)

\* the request has no file part: no parsed body at all, or a body without a
\* file (for Azure: without a File under the name file)
LacksFilePart(h, req) ==
  IF IsAzure(h)
  THEN req.form.t # "object" \/ FormGet(req.form, "file").t # "file"
  ELSE req.body.t # "object" \/ "file" \notin DOMAIN req.body.f

\* the request has no instructions part, or an empty one
LacksInstructions(h, req) ==
  IF IsAzure(h)
  THEN req.form.t # "object" \/ ~Truthy(FormGet(req.form, "instructions"))
  ELSE req.body.t # "object" \/ ~Truthy(Get(req.body, "instructions"))

InstructionsText(h, req) ==
  IF IsAzure(h) THEN FormGet(req.form, "instructions").v ELSE Get(req.body, "instructions").v

\* C6: with the handler's credential absent, every POST request to any of
\* the four handlers is answered 500 with a 'not configured' error and no
\* upstream call is made, whatever the request holds.
C6_MissingCredential ==
  ~CredentialPresent =>
    /\ ppc # "upstream"
    /\ upstreamReqs = <<>>
    /\ (HandlerResponded /\ request.method = "POST") =>
         /\ response.status = 500
         /\ response.body.t = "string"
         /\ Contains(response.body.v, "\"error\":\"")
         /\ Contains(response.body.v, "not configured")

\* C6 witness: no credential, and a POST to the Vercel viewer-upload handler
\* that carries a file was answered
C6_Witness ==
  /\ HandlerResponded
  /\ apiKey = Undef
  /\ handler = "vercelViewerUpload"
  /\ request.method = "POST"
  /\ ~LacksFilePart(handler, request)
  /\ response.status = 500

\* C7 as stated: with the credential present, every build request without a
\* file part (a request with no parsed body included) is answered 400 with
\* a message mentioning the file, and every request with a file but without
\* instructions 400 with a message mentioning instructions; no upstream call
\* is made in either case.
C7_MissingPartsAre400 ==
  (HandlerResponded /\ CredentialPresent /\ IsBuild(handler) /\ request.method = "POST") =>
    /\ LacksFilePart(handler, request) =>
         /\ response.status = 400
         /\ response.body.t = "string"
         /\ Contains(response.body.v, "file")
         /\ upstreamReqs = <<>>
    /\ (~LacksFilePart(handler, request) /\ LacksInstructions(handler, request)) =>
         /\ response.status = 400
         /\ response.body.t = "string"
         /\ Contains(response.body.v, "instructions")
         /\ upstreamReqs = <<>>

\* C8 as stated: with credential and file present, a build request whose
\* instructions are present but not parseable as JSON is answered 400 and
\* no upstream call is made.
C8_MalformedInstructionsAre400 ==
  (HandlerResponded /\ CredentialPresent /\ IsBuild(handler) /\ request.method = "POST"
     /\ ~LacksFilePart(handler, request) /\ ~LacksInstructions(handler, request)
     /\ ~JSONparse(InstructionsText(handler, request)).ok) =>
    /\ response.status = 400
    /\ upstreamReqs = <<>>

\* the error label of a handler's upstream-error response
UpstreamErrorLabel(h) ==
  IF IsBuild(h) THEN "Nutrient.io API error" ELSE "Nutrient.io Viewer API error"

\* C9: when the upstream call fails, the response status is the upstream's
\* status if the upstream answered with one and 500 if it did not (network
\* failure, timeout); the body is the upstream-error object, whose details
\* are the upstream's error body when it sent one.
C9_UpstreamFailureMapping ==
  (HandlerResponded /\ upstreamResult # None /\ upstreamResult.kind # "ok") =>
    /\ upstreamResult.kind = "httpError" => response.status = upstreamResult.status
    /\ upstreamResult.kind = "noResponse" => response.status = 500
    /\ response.body.t = "string"
    /\ Contains(response.body.v, "{\"error\":\"" \o UpstreamErrorLabel(handler) \o "\",\"details\":")
    /\ (upstreamResult.kind = "httpError" /\ upstreamResult.data # Str("")) =>
         response.body.v =
           JSONstringify(Obj([error |-> Str(UpstreamErrorLabel(handler)),
                              details |-> upstreamResult.data]))

\* C9 witness: the upstream viewer API answered 503 with a JSON error body
C9_Witness ==
  /\ HandlerResponded
  /\ handler = "azureViewerUpload"
  /\ upstreamResult # None
  /\ upstreamResult.kind = "httpError"
  /\ upstreamResult.status = 503
  /\ upstreamResult.data = Obj([error |-> Str("invalid token")])
  /\ response.status = 503

\* the bytes of the uploaded file, when it was uploaded as binary
UploadedBinary(h, req) ==
  IF IsAzure(h) THEN TRUE
  ELSE LET file == Get(req.body, "file")
       IN Or(Get(file, "data"), file).t = "bytes"

UploadedBytes(h, req) ==
  IF IsAzure(h) THEN FormGet(req.form, "file").data
  ELSE LET file == Get(req.body, "file")
       IN Or(Get(file, "data"), file).v

\* C10: on upstream success a build handler answers 200 with Content-Type
\* application/pdf and a body equal, byte for byte, to the upstream response
\* body; when the upstream echoes what it was sent, the body equals the bytes
\* of the uploaded file.
C10_BinaryPassThrough ==
  (HandlerResponded /\ IsBuild(handler) /\ upstreamResult # None
     /\ upstreamResult.kind = "ok") =>
    /\ response.status = 200
    /\ "Content-Type" \in DOMAIN response.headers
    /\ response.headers["Content-Type"] = "application/pdf"
    /\ response.body = upstreamResult.data
    /\ (upstreamResult.echo /\ UploadedBinary(handler, request)) =>
         (response.body.t = "bytes" /\ response.body.v = UploadedBytes(handler, request))

\* C10 witness: an echoing upstream returned an uploaded file holding the
\* byte 255
C10_Witness ==
  /\ HandlerResponded
  /\ IsBuild(handler)
  /\ upstreamResult # None
  /\ upstreamResult.kind = "ok"
  /\ upstreamResult.echo
  /\ UploadedBinary(handler, request)
  /\ UploadedBytes(handler, request) = <<255>>
  /\ response.body = Bytes(<<255>>)

\* the name of the uploaded file as the request gives it (undefined when the
\* Vercel body's file has no name)
SourceName(h, req) ==
  IF IsAzure(h) THEN Str(FormGet(req.form, "file").name)
  ELSE Get(Get(req.body, "file"), "name")

\* a name without its extension: what precedes its last "."
Stem(name) ==
  LET dots == {i \in 1..Len(name) : SubSeq(name, i, i) = "."}
  IN IF dots = {} THEN name
     ELSE SubSeq(name, 1, (CHOOSE i \in dots : \A j \in dots : j <= i) - 1)

EndsWith(s, suffix) ==
  Len(s) >= Len(suffix) /\ SubSeq(s, Len(s) - Len(suffix) + 1, Len(s)) = suffix

\* the filename suggested by a Content-Disposition header value
SuggestedName(value) ==
  SubSeq(value, Len("attachment; filename=\"") + 1, Len(value) - 1)

BuildSucceeded ==
  /\ HandlerResponded
  /\ IsBuild(handler)
  /\ upstreamResult # None
  /\ upstreamResult.kind = "ok"

\* C11 as stated: on success of a build handler the filename suggested in
\* Content-Disposition ends in .pdf for every source filename, with or
\* without an extension or missing, and is the source name with its
\* extension replaced by .pdf.
C11_SuggestedNameEndsInPdf ==
  BuildSucceeded =>
    /\ "Content-Disposition" \in DOMAIN response.headers
    /\ EndsWith(SuggestedName(response.headers["Content-Disposition"]), ".pdf")
    /\ Truthy(SourceName(handler, request)) =>
         SuggestedName(response.headers["Content-Disposition"])
           = Stem(SourceName(handler, request).v) \o ".pdf"

ViewerUploadSucceeded ==
  /\ HandlerResponded
  /\ ~IsBuild(handler)
  /\ upstreamResult # None
  /\ upstreamResult.kind = "ok"

\* the body of the relay's success response for a document identifier
RelaySuccessBody(id) ==
  JSONstringify(Obj([success |-> Bool(TRUE), documentId |-> id]))

\* C12 as stated: on upstream success a viewer-upload handler answers 200
\* with success and the documentId taken from a non-empty document_id, else
\* from a non-empty id; when the upstream response holds neither, it answers
\* with an error and never with success=true.
C12_DocumentIdOrUpstreamError ==
  ViewerUploadSucceeded =>
    LET did == Get(upstreamResult.data, "document_id")
        id == Get(upstreamResult.data, "id")
    IN /\ Truthy(did) =>
            (response.status = 200 /\ response.body = Str(RelaySuccessBody(did)))
       /\ (~Truthy(did) /\ Truthy(id)) =>
            (response.status = 200 /\ response.body = Str(RelaySuccessBody(id)))
       /\ (~Truthy(did) /\ ~Truthy(id)) =>
            /\ response.status >= 400
            /\ response.body.t = "string"
            /\ ~Contains(response.body.v, "\"success\":true")

\* the request carries a file part whose payload has no bytes
HasEmptyFile(h, req) ==
  /\ ~LacksFilePart(h, req)
  /\ UploadedBinary(h, req)
  /\ UploadedBytes(h, req) = <<>>

\* C13 as stated: with the credential present, a POST request to any handler
\* whose file part is present but empty is answered 400 and no upstream call
\* is made for it.
C13_EmptyPayloadIs400 ==
  (CredentialPresent /\ ppc \in {"upstream", "responded"} /\ request.method = "POST"
     /\ HasEmptyFile(handler, request)) =>
    /\ upstreamReqs = <<>>
    /\ HandlerResponded => response.status = 400

(***************************************************************************)
(* The service and the handlers in one specification.  They are separate   *)
(* processes that share no state: the service runs in the task pane, where *)
(* no credential is configured, and a handler keeps nothing between        *)
(* requests.  Each side is therefore explored while the other is at rest.  *)
(***************************************************************************)
ServiceAtRest == pc = "idle" /\ runs = 0

HandlersAtRest == ppc = "idle" /\ apiKey = Undef

\* the function app is deployed with a value of its credential variable
Configure(key) ==
  /\ ServiceAtRest
  /\ HandlersAtRest
  /\ apiKey' = key
  /\ UNCHANGED <<ppc, handler, request, upstreamReqs, upstreamResult, response, clientVars,
                 appVars, detectorVars>>

SystemNext ==
  \/ \E key \in ApiKeys \ {Undef} : Configure(key)
  \/ \E o \in {"exportToPDF", "redactDocument"}, opts \in OptionSets :
       HandlersAtRest /\ Start(o, opts) /\ UNCHANGED <<appVars, detectorVars>>
  \/ \E res \in DocumentResults :
       HandlersAtRest /\ DocumentSettles(res) /\ UNCHANGED <<appVars, detectorVars>>
  \/ \E r \in BuildFetchResults : HandlersAtRest /\ BuildSettles(r) /\ UNCHANGED <<appVars, detectorVars>>
  \/ \E r \in ViewerFetchResults : HandlersAtRest /\ ViewerSettles(r) /\ UNCHANGED <<appVars, detectorVars>>
  \/ \E h \in Handlers : \E req \in RequestsOf(h) : ServiceAtRest /\ Request(h, req)
  \/ \E up \in UpstreamResults(handler) : ServiceAtRest /\ UpstreamSettles(up)
  \/ ServiceAtRest /\ Complete

SystemSpec == Init /\ [][SystemNext]_vars

(***************************************************************************)
(* Properties of the service and the handlers (checked under SystemSpec).  *)
(***************************************************************************)
\* the positions in the run's call log of the calls to an endpoint
CallsTo(endpoint) == {i \in DOMAIN calls : calls[i].endpoint = endpoint}

\* C14: a run of exportToPDF or redactDocument calls /api/build at most once
\* and /api/viewer-upload at most once, the second only after the first has
\* settled, so at most two calls in all; a handler sends at most one request
\* upstream for an inbound request.  A failed call is never made again.
C14_AtMostOneCallEach ==
  /\ Len(calls) <= 2
  /\ Cardinality(CallsTo(API_ENDPOINTS.BUILD)) <= 1
  /\ Cardinality(CallsTo(API_ENDPOINTS.VIEWER_UPLOAD)) <= 1
  /\ \A i \in CallsTo(API_ENDPOINTS.VIEWER_UPLOAD) :
       /\ i = 2
       /\ calls[1].endpoint = API_ENDPOINTS.BUILD
       /\ buildResult # None
  /\ (pc = "build" => viewerResult = None)
  /\ Len(upstreamReqs) <= 1
  /\ (HandlerResponded /\ upstreamResult # None) => Len(upstreamReqs) = 1

\* C14 witness: a run whose conversion call succeeded and whose preview call
\* failed has ended with exactly these two calls in its log
C14_Witness ==
  /\ Finished
  /\ PreviewCallFailed
  /\ Len(calls) = 2
  /\ calls[1].endpoint = API_ENDPOINTS.BUILD
  /\ calls[2].endpoint = API_ENDPOINTS.VIEWER_UPLOAD

(***************************************************************************)
(* Progress.  A handler's axios.post carries a timeout (BUILD_TIMEOUT,     *)
(* VIEWER_TIMEOUT), so it settles, at the latest with the timeout error,   *)
(* and the handler then returns its response.  The service's fetch calls   *)
(* carry no signal and no timer: nothing in the code makes them settle.    *)
(***************************************************************************)
FairSystemSpec ==
  /\ SystemSpec
  /\ WF_vars(\E up \in UpstreamResults(handler) : ServiceAtRest /\ UpstreamSettles(up))
  /\ WF_vars(ServiceAtRest /\ Complete)

\* a fetch of the running method has been called and has not settled
AwaitingFetch == pc \in {"build", "viewer"}

\* C15 as stated: each of the two calls of a run is bounded by a deadline, so
\* a run that has made a call always ends, whether or not the call is
\* answered.
C15_RunAlwaysTerminates == AwaitingFetch ~> Finished

\* the response handler h gives to request req when its credential is key and
\* its upstream call, if it makes one, settles with up
ResponseFor(h, key, req, up) ==
  LET b == HandlerBefore(h, key, req)
  IN IF b.done THEN b.response ELSE HandlerAfter(h, req, up)

\* the configured (non-empty) values of the credential
ConfiguredKeys == {k \in ApiKeys : Truthy(k)}

\* the text s occurs in the response: in a header value or in a text body
OccursInResponse(r, s) ==
  \/ \E k \in DOMAIN r.headers : Contains(r.headers[k], s)
  \/ r.body.t = "string" /\ Contains(r.body.v, s)

\* C16: with a credential configured, no response of any handler (success,
\* 4xx, upstream error, internal error) contains the credential, and the
\* same request with the same upstream behaviour gets the same response
\* under every other configured credential.
C16_CredentialNotInResponse ==
  (HandlerResponded /\ CredentialPresent) =>
    /\ ~OccursInResponse(response, apiKey.v)
    /\ \A k \in ConfiguredKeys :
         ResponseFor(handler, k, request, upstreamResult) = response

\* C16 witness: the upstream rejected the credential (401) and the Vercel
\* build handler has passed the upstream's error body on
C16_Witness ==
  /\ HandlerResponded
  /\ apiKey = Str("pdf_live_KEY2")
  /\ handler = "vercelBuild"
  /\ upstreamResult # None
  /\ upstreamResult.kind = "httpError"
  /\ upstreamResult.status = 401
  /\ response.status = 401
  /\ Len(upstreamReqs) = 1
  /\ upstreamReqs[1].headers["Authorization"] = "Bearer pdf_live_KEY2"

(***************************************************************************)
(* The App component (App.tsx) with its Export and Redact tabs: the click  *)
(* handlers call the DocumentService and put its outcome into the state    *)
(* the tabs render.                                                        *)
(***************************************************************************)
AppHandlers == {"handleExportToPDF", "handleRedactDocument"}

\* the tab whose button calls the handler, and the service method it awaits
TabOf(h) ==
  CASE h = "handleExportToPDF" -> "export"
    [] h = "handleImportFromPDF" -> "import"
    [] h = "handleRedactDocument" -> "redact"
ServiceMethod(h) == IF h = "handleExportToPDF" THEN "exportToPDF" ELSE "redactDocument"

\* the options a tab passes to its handler: ExportTab passes format and ocr,
\* RedactTab passes redact and stripMetadata
TabOptions(h) ==
  IF h = "handleExportToPDF"
  THEN {o \in OptionSets : "format" \in DOMAIN o.f}
  ELSE {o \in OptionSets : "redact" \in DOMAIN o.f}

\* the texts of the handler's setStatus calls
StatusMessages(h) ==
  IF h = "handleExportToPDF"
  THEN [info |-> "Converting document to PDF...",
        success |-> "Document converted successfully!",
        failure |-> "Failed to convert document"]
  ELSE IF h = "handleImportFromPDF"
  THEN [info |-> "Processing PDF...",
        success |-> "PDF imported successfully!",
        failure |-> "Failed to import PDF"]
  ELSE [info |-> "Processing document for redaction...",
        success |-> "Document redacted successfully!",
        failure |-> "Failed to redact document"]

\* setStatus(type, message)
setStatus(prev, type, message) ==
  [prev EXCEPT !.status = [type |-> Str(type), message |-> message]]

\* variant of setLoading: the flag is left as it was
setLoading_Unchanged(prev, isLoading) == prev

\* setLoading(isLoading)
setLoading(prev, isLoading) == [prev EXCEPT !.isLoading = isLoading]

\* variant of StateAfterOutcome: an outcome without viewerUrl leaves the
\* viewerUrl of the state as it was
StateAfterOutcome_KeepsViewerUrl(h, prev, result) ==
  IF result.t = "rejected"
  THEN setStatus(prev, "error", "Error: " \o result.error.message)
  ELSE IF h = "handleImportFromPDF"
  THEN IF Truthy(Get(result, "success"))
       THEN setStatus(prev, "success", StatusMessages(h).success)
       ELSE setStatus(prev, "error",
                      ToStr(Or(Get(result, "error"), Str(StatusMessages(h).failure))))
  ELSE IF Truthy(Get(result, "success")) /\ Truthy(Get(result, "pdfUrl"))
  THEN setStatus([prev EXCEPT !.pdfUrl = Get(result, "pdfUrl"),
                              !.viewerUrl = Or(Get(result, "viewerUrl"), prev.viewerUrl)],
                 "success", StatusMessages(h).success)
  ELSE setStatus(prev, "error",
                 ToStr(Or(Get(result, "error"), Str(StatusMessages(h).failure))))

\* the handler's statements after `await documentService...`: the state they
\* leave for the outcome result, or, in the catch block, for the error the
\* service's promise rejected with
StateAfterOutcome(h, prev, result) ==
  IF result.t = "rejected"
  THEN setStatus(prev, "error", "Error: " \o result.error.message)
  ELSE IF h = "handleImportFromPDF"
  THEN IF Truthy(Get(result, "success"))
       THEN setStatus(prev, "success", StatusMessages(h).success)
       ELSE setStatus(prev, "error",
                      ToStr(Or(Get(result, "error"), Str(StatusMessages(h).failure))))
  ELSE IF Truthy(Get(result, "success")) /\ Truthy(Get(result, "pdfUrl"))
  THEN setStatus([prev EXCEPT !.pdfUrl = Get(result, "pdfUrl"),
                              !.viewerUrl = Or(Get(result, "viewerUrl"), Null)],
                 "success", StatusMessages(h).success)
  ELSE setStatus(prev, "error",
                 ToStr(Or(Get(result, "error"), Str(StatusMessages(h).failure))))

\* the files the Import tab can hold as its selected file
ImportFiles == {FileV("scan.pdf", "application/pdf", d) : d \in {<<>>, <<37>>}}

\* the options ImportTab passes
ImportOptionSets == {Obj([ocr |-> Bool(b)]) : b \in BOOLEAN}

\* importFromPDF is called: it builds the FormData and calls fetch(BUILD)
StartImport(file, opts) ==
  /\ pc \in {"idle", "done"}
  /\ runs < MaxRuns
  /\ pc' = "build"
  /\ op' = "importFromPDF"
  /\ options' = opts
  /\ runs' = runs + 1
  /\ calls' = <<FetchCall(API_ENDPOINTS.BUILD, Bytes(file.data), file.name,
                          Str(JSONstringify(importInstructions(opts))))>>
  /\ buildResult' = None
  /\ viewerResult' = None
  /\ pdfBlob' = None
  /\ pdfUrl' = None
  /\ outcome' = Undef
  /\ consoleWarn' = <<>>
  /\ UNCHANGED <<objectUrls, proxyVars>>

\* fetch(BUILD) of importFromPDF settles: a rejection, a non-ok response or
\* an unreadable body ends the run in the catch; otherwise the blob is read
\* and insertDocumentContent starts
ImportBuildSettles(r) ==
  /\ pc = "build"
  /\ op = "importFromPDF"
  /\ buildResult' = r
  /\ IF r.kind = "reject"
     THEN /\ outcome' = FailureOutcome(Err(FetchRejectMessage))
          /\ pc' = "done"
          /\ pdfBlob' = pdfBlob
     ELSE IF ~ResponseOk(r)
     THEN /\ outcome' = FailureOutcome(Err("Import failed: " \o r.statusText))
          /\ pc' = "done"
          /\ pdfBlob' = pdfBlob
     ELSE IF r.body.t # "bytes"
     THEN /\ outcome' = FailureOutcome(Err(BodyReadMessage))
          /\ pc' = "done"
          /\ pdfBlob' = pdfBlob
     ELSE /\ pdfBlob' = r.body
          /\ pc' = "insert"
          /\ outcome' = outcome
  /\ UNCHANGED <<op, options, runs, calls, viewerResult, pdfUrl, consoleWarn, objectUrls,
                 proxyVars>>

\* how insertDocumentContent can end: the text is inserted, setSelectedDataAsync
\* fails, or the FileReader fails
InsertResults == {"inserted", "insertFailed", "readFailed"}

\* insertDocumentContent settles and importFromPDF returns
InsertSettles(res) ==
  /\ pc = "insert"
  /\ outcome' =
       CASE res = "inserted" -> Obj([success |-> Bool(TRUE)])
         [] res = "insertFailed" -> FailureOutcome(Err("Failed to insert content"))
         [] res = "readFailed" -> FailureOutcome(Err("Failed to read file"))
  /\ pc' = "done"
  /\ UNCHANGED <<op, options, runs, calls, buildResult, viewerResult, pdfBlob, pdfUrl,
                 consoleWarn, objectUrls, proxyVars>>

\* the button of the handler's tab is clicked: the handler sets the loading
\* flag and the info status and calls the service.  The button is disabled
\* while isLoading is set.
HandlerCalled(h, opts) ==
  /\ state.currentTab = TabOf(h)
  /\ ~state.isLoading
  /\ state' = setStatus(setLoading(state, TRUE), "info", StatusMessages(h).info)
  /\ running' = h
  /\ Start(ServiceMethod(h), opts)
  /\ UNCHANGED detectorVars

\* the Import PDF button is clicked with a file selected: handleImportFromPDF
\* sets the loading flag and the info status and calls the service
ImportCalled(file, opts) ==
  /\ state.currentTab = "import"
  /\ ~state.isLoading
  /\ state' = setStatus(setLoading(state, TRUE), "info",
                        StatusMessages("handleImportFromPDF").info)
  /\ running' = "handleImportFromPDF"
  /\ StartImport(file, opts)
  /\ UNCHANGED detectorVars

\* the service has returned its outcome: the handler stores it and, in its
\* finally block, clears the loading flag
HandlerResumes ==
  /\ running # "none"
  /\ pc = "done"
  /\ state' = setLoading(StateAfterOutcome(running, state, outcome), FALSE)
  /\ running' = "none"
  /\ UNCHANGED <<clientVars, proxyVars, detectorVars>>

\* a tab button is clicked
switchTab(tab) ==
  /\ state' = [state EXCEPT !.currentTab = tab]
  /\ UNCHANGED <<running, clientVars, proxyVars, detectorVars>>

AppNext ==
  \/ \E tab \in {"export", "import", "redact"} : switchTab(tab)
  \/ \E h \in AppHandlers : \E opts \in TabOptions(h) : HandlerCalled(h, opts)
  \/ \E file \in ImportFiles, opts \in ImportOptionSets : ImportCalled(file, opts)
  \/ \E r \in BuildFetchResults :
       running # "none" /\ ImportBuildSettles(r) /\ UNCHANGED <<appVars, detectorVars>>
  \/ \E res \in InsertResults :
       running # "none" /\ InsertSettles(res) /\ UNCHANGED <<appVars, detectorVars>>
  \/ \E res \in DocumentResults :
       running # "none" /\ DocumentSettles(res) /\ UNCHANGED <<appVars, detectorVars>>
  \/ \E r \in BuildFetchResults :
       /\ running # "none"
       /\ op # "importFromPDF"
       /\ BuildSettles(r)
       /\ UNCHANGED <<appVars, detectorVars>>
  \/ \E r \in ViewerFetchResults :
       running # "none" /\ ViewerSettles(r) /\ UNCHANGED <<appVars, detectorVars>>
  \/ HandlerResumes

AppSpec == Init /\ [][AppNext]_vars

\* what App and the tabs render from the state: the status line, the success
\* box with the download button, and the preview link and iframe inside it
ErrorShown == state.status.type = Str("error")
SuccessShown == state.status.type = Str("success")
ResultTabOpen == state.currentTab \in {"export", "redact"}
DownloadShown == ResultTabOpen /\ Truthy(state.pdfUrl)
PreviewShown == DownloadShown /\ Truthy(state.viewerUrl)

(***************************************************************************)
(* Properties of the App (checked under AppSpec).                          *)
(***************************************************************************)
\* a handler of the Export or Redact tab has run to its end and no other
\* has been called since
RunEnded == running = "none" /\ pc = "done" /\ op # "importFromPDF"

\* C17: after a run an error status is shown only if the run's outcome had
\* success=false; when the outcome has success=true and no preview URL, the
\* status is the success status, the download button of the Export and
\* Redact tabs is shown for the run's artifact, and the preview link and the
\* preview iframe are not.
C17_ErrorOnlyOnFailure ==
  RunEnded =>
    /\ ErrorShown => Get(outcome, "success") = Bool(FALSE)
    /\ (Get(outcome, "success") = Bool(TRUE) /\ ~Truthy(Get(outcome, "viewerUrl"))) =>
         /\ SuccessShown
         /\ state.pdfUrl = Get(outcome, "pdfUrl")
         /\ ResultTabOpen => (DownloadShown /\ ~PreviewShown)

\* C17 witness: a second run, on the Redact tab, whose conversion succeeded
\* and whose preview upload failed, has ended
C17_Witness ==
  /\ RunEnded
  /\ runs = 2
  /\ state.currentTab = "redact"
  /\ op = "redactDocument"
  /\ PreviewCallFailed
  /\ Get(outcome, "success") = Bool(TRUE)
  /\ SuccessShown
  /\ DownloadShown
  /\ ~PreviewShown

\* the boolean fields of ProcessingOptions
BooleanOptions == {"ocr", "redact", "stripMetadata"}

\* the instructions object a call to /api/build carries
SentInstructions(call) == JSONparse(call.instructions.v).v

\* C18 as stated: in the instructions sent to /api/build, every boolean
\* option that the caller's options do not hold is false or absent, never
\* true.
C18_AbsentOptionsDisabled ==
  \A i \in CallsTo(API_ENDPOINTS.BUILD) :
    \A k \in BooleanOptions :
      k \notin DOMAIN options.f => ~Truthy(Get(SentInstructions(calls[i]), k))

\* the outcome reports a failure: success=false and a non-empty error text
ReportsFailure(o) ==
  /\ Get(o, "success") = Bool(FALSE)
  /\ Get(o, "error").t = "string"
  /\ Get(o, "error").v # ""

\* C19: a run of exportToPDF always resolves to an outcome object and never
\* rejects; when the document could not be retrieved, the conversion call
\* failed or its body could not be read, the outcome has success=false and a
\* non-empty error message; and a run that ended without a conversion result
\* (the document retrieval failed) has made no call.
C19_ExportNeverThrows ==
  (Finished /\ op = "exportToPDF") =>
    /\ outcome.t = "object"
    /\ Get(outcome, "success").t = "boolean"
    /\ ~ConversionSucceeded => ReportsFailure(outcome)
    /\ buildResult = None =>
         /\ calls = <<>>
         /\ Get(outcome, "error") \in {Str("Failed to get document file"),
                                       Str("Failed to get document slice")}

\* C19 witness: getSliceAsync failed and exportToPDF returned the failure
\* without calling the proxy
C19_Witness ==
  /\ Finished
  /\ op = "exportToPDF"
  /\ buildResult = None
  /\ outcome = Obj([success |-> Bool(FALSE), error |-> Str("Failed to get document slice")])
  /\ calls = <<>>

\* ---------------------------------------------------------------------------
\* The sideloading diagnostics: the SideloadingDetector singleton
\* ---------------------------------------------------------------------------

\* the global Office when detectSideloadingIssues runs: not defined, defined
\* with onReady, or defined with an onReady that throws when called
OfficeGlobals == {"undefined", "loaded", "throws"}

\* when Office.onReady invokes the callback it is given: inside the call (as
\* the test double does) or at some later time, if ever
OnReadyTimings == {"synchronous", "later"}

\* the files checkManifestFiles asks for, in its order
manifestFiles == <<"index.html", "commands.html", "icon.svg">>

ManifestNames == {manifestFiles[i] : i \in 1..Len(manifestFiles)}

\* outcomes of the three manifest fetches: the set of files that answered
\* with response.ok
AccessibleSets == {ManifestNames, {"index.html", "icon.svg"}, {"index.html"}, {}}

\* this.status.issues.push(issue)
PushIssue(st, issue) == [st EXCEPT !.issues = Append(@, issue)]

\* the callback checkOfficeAvailability hands to Office.onReady; it writes
\* to whatever this.status is when it is invoked
onReadyCallback(st, info) ==
  LET st1 == [st EXCEPT !.isWordEnvironment = (info.host = "Word")]
  IN IF ~st1.isWordEnvironment
     THEN PushIssue(st1, "Add-in is not running in Microsoft Word")
     ELSE st1

checkOfficeAvailability(st, office, timing) ==
  LET st1 == [st EXCEPT !.isOfficeAvailable = (office # "undefined")]
  IN IF ~st1.isOfficeAvailable THEN PushIssue(st1, "Office.js is not available")
     ELSE IF office = "throws" THEN PushIssue(st1, "Failed to initialize Office.js")
     ELSE IF timing = "synchronous" THEN onReadyCallback(st1, [host |-> officeHost])
     ELSE st1

checkEnvironmentConfiguration(st, loc) ==
  LET st1 == IF loc.protocol = "https:" /\ loc.hostname = "localhost"
             THEN PushIssue([st EXCEPT !.hasProtocolMismatch = TRUE],
                            "HTTPS/HTTP protocol mismatch detected")
             ELSE st
      st2 == IF loc.port # "3000"
             THEN PushIssue([st1 EXCEPT !.hasPortMismatch = TRUE],
                            "Expected port 3000, but running on port " \o loc.port)
             ELSE st1
  IN IF loc.hostname # "localhost"
     THEN PushIssue(st2, "Not running on localhost - may cause sideloading issues")
     ELSE st2

checkDOMElements(st, container) ==
  LET st1 == [st EXCEPT !.hasContainerElement = container]
  IN IF ~st1.hasContainerElement
     THEN PushIssue(st1, "Container element not found in DOM")
     ELSE st1

\* checkServerConnectivity after its fetch settled
checkServerConnectivity(st, responded) ==
  IF responded THEN [st EXCEPT !.isServerRunning = TRUE]
  ELSE PushIssue([st EXCEPT !.isServerRunning = FALSE], "Local server is not responding")

RECURSIVE PushInaccessible(_, _, _)
\* results.forEach: an issue for each file that is not accessible, in order
PushInaccessible(st, accessible, i) ==
  IF i > Len(manifestFiles) THEN st
  ELSE PushInaccessible(
         IF manifestFiles[i] \in accessible THEN st
         ELSE PushIssue(st, "Manifest file not accessible: " \o manifestFiles[i]),
         accessible, i + 1)

\* checkManifestFiles after Promise.all settled; accessible holds the files
\* whose fetch resolved with response.ok
checkManifestFiles(st, accessible) ==
  PushInaccessible([st EXCEPT !.isManifestValid = (accessible = ManifestNames)],
                   accessible, 1)

generateRecommendations(st) ==
  [st EXCEPT !.recommendations =
     (IF ~st.isOfficeAvailable
      THEN <<"Follow the sideloading instructions at http://localhost:3000/sideload-instructions.html">>
      ELSE <<>>)
     \o (IF st.hasProtocolMismatch
         THEN <<"Update manifest.xml to use HTTP instead of HTTPS for localhost">>
         ELSE <<>>)
     \o (IF st.hasPortMismatch THEN <<"Ensure the server is running on port 3000">> ELSE <<>>)
     \o (IF ~st.isServerRunning
         THEN <<"Start the local server: python3 -m http.server 3000 --directory dist">>
         ELSE <<>>)
     \o (IF ~st.isManifestValid
         THEN <<"Check that all manifest files are present in the dist directory">>
         ELSE <<>>)
     \o (IF Len(st.issues) = 0
         THEN <<"All checks passed! The add-in should load properly in Word.">>
         ELSE <<>>)]

\* SideloadingDetector.isReady on a status
isReady(st) ==
  /\ st.isOfficeAvailable
  /\ st.isWordEnvironment
  /\ st.isServerRunning
  /\ st.isManifestValid
  /\ st.hasContainerElement
  /\ Len(st.issues) = 0

\* the exported function: isReady of the singleton
isSideloadingReady == isReady(detectorStatus)

\* call d has started and has not returned
InFlight(d) == detections[d] \in {"server", "manifest"}

\* the calls are numbered in the order they are made; a call may start while
\* another one is in flight, and the model looks at overlaps of two calls
NextDetection(d) ==
  /\ detections[d] = "idle"
  /\ \A e \in Detections : e < d => detections[e] # "idle"
  /\ \A e, f \in Detections : InFlight(e) /\ InFlight(f) => e = f

\* call d is the most recent one
Latest(d) ==
  /\ detections[d] # "idle"
  /\ \A e \in Detections : e > d => detections[e] = "idle"

\* detectSideloadingIssues is called: it replaces this.status, runs its three
\* synchronous checks and starts the fetch of checkServerConnectivity
detectSideloadingIssues(d, office, timing, container) ==
  /\ NextDetection(d)
  /\ detectorStatus' =
       checkDOMElements(
         checkEnvironmentConfiguration(
           checkOfficeAvailability(initializeStatus, office, timing),
           windowLocation),
         container)
  /\ onReadyPending' =
       IF office = "loaded" /\ timing = "later" THEN onReadyPending + 1 ELSE onReadyPending
  /\ detections' = [detections EXCEPT ![d] = "server"]
  /\ met' = [office |-> office, container |-> container, server |-> "pending",
             accessible |-> {}]
  /\ callEnv' = [e \in Detections |->
                  IF e = d
                  THEN [office |-> office, timing |-> timing, container |-> container,
                        responded |-> FALSE, accessible |-> {},
                        overlapped |-> \E other \in Detections : InFlight(other)]
                  ELSE IF InFlight(e) THEN [callEnv[e] EXCEPT !.overlapped = TRUE]
                  ELSE callEnv[e]]
  /\ resolved' = resolved
  /\ UNCHANGED <<windowLocation, officeHost, clientVars, proxyVars, appVars>>

\* the fetch of checkServerConnectivity settles; call d goes on to
\* checkManifestFiles and starts its three fetches
ServerSettles(d, responded) ==
  /\ detections[d] = "server"
  /\ detectorStatus' = checkServerConnectivity(detectorStatus, responded)
  /\ detections' = [detections EXCEPT ![d] = "manifest"]
  /\ met' = IF Latest(d)
             THEN [met EXCEPT !.server = IF responded THEN "responded" ELSE "failed"]
             ELSE met
  /\ callEnv' = [callEnv EXCEPT ![d].responded = responded]
  /\ resolved' = resolved
  /\ UNCHANGED <<onReadyPending, windowLocation, officeHost, clientVars, proxyVars, appVars>>

\* Promise.all of the three manifest fetches settles; call d records the
\* result, generates the recommendations and returns this.status
ManifestSettles(d, accessible) ==
  /\ detections[d] = "manifest"
  /\ detectorStatus' = generateRecommendations(checkManifestFiles(detectorStatus, accessible))
  /\ detections' = [detections EXCEPT ![d] = "done"]
  /\ met' = IF Latest(d) THEN [met EXCEPT !.accessible = accessible] ELSE met
  /\ callEnv' = [callEnv EXCEPT ![d].accessible = accessible]
  /\ resolved' = [resolved EXCEPT ![d] = detectorStatus']
  /\ UNCHANGED <<onReadyPending, windowLocation, officeHost, clientVars, proxyVars, appVars>>

\* Office invokes a callback it was given
OnReadyFires ==
  /\ onReadyPending > 0
  /\ detectorStatus' = onReadyCallback(detectorStatus, [host |-> officeHost])
  /\ onReadyPending' = onReadyPending - 1
  /\ UNCHANGED <<detections, met, callEnv, resolved, windowLocation, officeHost, clientVars,
                 proxyVars, appVars>>

DetectorNext ==
  \/ \E d \in Detections, office \in OfficeGlobals, timing \in OnReadyTimings,
        container \in BOOLEAN :
       detectSideloadingIssues(d, office, timing, container)
  \/ \E d \in Detections, responded \in BOOLEAN : ServerSettles(d, responded)
  \/ \E d \in Detections, accessible \in AccessibleSets : ManifestSettles(d, accessible)
  \/ OnReadyFires

\* the service, the App and the proxy take no step in DetectorSpec
DetectorInit ==
  /\ ClientInit
  /\ AppInit
  /\ ProxyParked
  /\ DetectorConstructed

DetectorSpec == DetectorInit /\ [][DetectorNext]_vars

\* ---------------------------------------------------------------------------
\* C20
\* ---------------------------------------------------------------------------

\* no call of detectSideloadingIssues has been made
NoDetectionYet == \A d \in Detections : detections[d] = "idle"

\* the most recent call has returned and no call is in flight
DetectionCompleted ==
  /\ \E d \in Detections : Latest(d) /\ detections[d] = "done"
  /\ \A d \in Detections : ~InFlight(d)

\* the environment the most recent call met passes every check: Office.js
\* loaded, Word as the host, the server responding, the three manifest files
\* accessible, the container element present and nothing else to report
MetAllGood ==
  /\ met.office = "loaded"
  /\ officeHost = "Word"
  /\ met.server = "responded"
  /\ met.accessible = ManifestNames
  /\ met.container
  /\ checkEnvironmentConfiguration(initializeStatus, windowLocation).issues = <<>>

\* C20: before any run isReady() and isSideloadingReady() are false; after a
\* run completed they are true if and only if the most recent run found
\* Office.js available, Word as the host, the server responding, all three
\* manifest files accessible, the container element present and no issue.
C20_ReadyIffLastRunGood ==
  /\ NoDetectionYet => ~isSideloadingReady
  /\ DetectionCompleted => (isSideloadingReady <=> MetAllGood)

\* ---------------------------------------------------------------------------
\* C21
\* ---------------------------------------------------------------------------

\* s starts with prefix p
StartsWith(s, p) == Len(s) >= Len(p) /\ SubSeq(s, 1, Len(p)) = p

\* the recommendation generateRecommendations pushes for the condition that
\* the issue reports; <<>> where it has no branch for that condition
RecommendationsFor(issue) ==
  IF issue = "Office.js is not available"
  THEN <<"Follow the sideloading instructions at http://localhost:3000/sideload-instructions.html">>
  ELSE IF issue = "HTTPS/HTTP protocol mismatch detected"
  THEN <<"Update manifest.xml to use HTTP instead of HTTPS for localhost">>
  ELSE IF StartsWith(issue, "Expected port 3000")
  THEN <<"Ensure the server is running on port 3000">>
  ELSE IF issue = "Local server is not responding"
  THEN <<"Start the local server: python3 -m http.server 3000 --directory dist">>
  ELSE IF StartsWith(issue, "Manifest file not accessible")
  THEN <<"Check that all manifest files are present in the dist directory">>
  ELSE <<>>

\* the elements of a list
Elements(seq) == {seq[i] : i \in 1..Len(seq)}

\* C21: after a detectSideloadingIssues run, whenever the issues list is
\* non-empty the recommendations list is non-empty, and every issue in the
\* list has a corresponding recommendation in the recommendations list.
C21_EveryIssueHasRecommendation ==
  DetectionCompleted =>
    /\ detectorStatus.issues # <<>> => detectorStatus.recommendations # <<>>
    /\ \A issue \in Elements(detectorStatus.issues) :
         \E rec \in Elements(RecommendationsFor(issue)) :
           rec \in Elements(detectorStatus.recommendations)

\* ---------------------------------------------------------------------------
\* C22
\* ---------------------------------------------------------------------------

\* C22: a blob URL made by URL.createObjectURL in exportToPDF or
\* redactDocument is revoked at the latest when a later run makes its own, so
\* at no time is more than one created URL left unrevoked.
C22_BlobUrlsRevoked == Cardinality(objectUrls) <= 1

\* ---------------------------------------------------------------------------
\* C23
\* ---------------------------------------------------------------------------

\* the fetch calls of the current run that went to the Preview Relay
ViewerCalls == {i \in 1..Len(calls) : calls[i].endpoint = API_ENDPOINTS.VIEWER_UPLOAD}

\* C23: the Preview Relay is called only after the conversion's response body
\* has been read, with exactly the bytes of that body; the blob and its
\* object URL are made from the same bytes before the relay is called, and
\* the run returns that URL whatever the relay call settles with.
C23_PreviewAfterBodyWithSameBytes ==
  \A i \in ViewerCalls :
    /\ ConversionSucceeded
    /\ calls[i].file = buildResult.body
    /\ pdfBlob = buildResult.body
    /\ pdfUrl = createObjectURL(runs)
    /\ pdfUrl \in objectUrls
    /\ Finished => Get(outcome, "pdfUrl") = pdfUrl

\* a run converted a non-empty document, called the relay, and the relay
\* call was rejected
C23_Witness ==
  /\ Finished
  /\ ViewerCalls # {}
  /\ Len(buildResult.body.v) > 0
  /\ viewerResult.kind = "reject"

\* ---------------------------------------------------------------------------
\* C24
\* ---------------------------------------------------------------------------

\* the reason phrase that goes with a status code
StatusTextOf(status) ==
  CASE status = 200 -> "OK"
    [] status = 400 -> "Bad Request"
    [] status = 401 -> "Unauthorized"
    [] status = 405 -> "Method Not Allowed"
    [] status = 500 -> "Internal Server Error"
    [] status = 503 -> "Service Unavailable"
    [] OTHER -> ""

\* what the client's fetch(VIEWER_UPLOAD) resolves with when the relay
\* handler answers with resp
FetchResultOf(resp) ==
  [kind |-> "response", status |-> resp.status, statusText |-> StatusTextOf(resp.status),
   body |-> resp.body]

\* the viewerUrl the client's run returns for the relay's response
ViewerUrlFor(resp) == ViewerUrlAfter(uploadToViewer(FetchResultOf(resp)))

\* a viewer-upload handler has answered
RelayAnswered == HandlerResponded /\ ~IsBuild(handler)

\* the relay's answer read on its own: an ok status and a JSON body with
\* success = true and a non-empty string documentId
RelayGaveDocumentId(resp) ==
  /\ resp.status \in 200..299
  /\ resp.body.t = "string"
  /\ JSONparse(resp.body.v).ok
  /\ LET result == JSONparse(resp.body.v).v
     IN /\ Get(result, "success") = Bool(TRUE)
        /\ Get(result, "documentId").t = "string"
        /\ Get(result, "documentId").v # ""

ViewerUrlPrefix == "https://viewer.nutrient.io/documents/"

\* C24: the client's uploadToViewer applied to the answer of the relay gives
\* a non-null viewerUrl only if the relay answered with an ok status,
\* success = true and a non-empty documentId, and then the URL is the viewer
\* prefix followed by exactly that documentId; no URL is built from an empty
\* or undefined identifier, whatever the upstream success body holds.
C24_ViewerUrlOnlyFromDocumentId ==
  RelayAnswered =>
    /\ ViewerUrlFor(response) # Null =>
         /\ RelayGaveDocumentId(response)
         /\ ViewerUrlFor(response)
              = Str(ViewerUrlPrefix \o Get(JSONparse(response.body.v).v, "documentId").v)
    /\ ViewerUrlFor(response)
         \notin {Str(ViewerUrlPrefix), Str(ViewerUrlPrefix \o "undefined"),
                 Str(ViewerUrlPrefix \o "null")}

\* the relay passed on an upstream identifier and the client built its URL
C24_Witness ==
  /\ RelayAnswered
  /\ upstreamResult # None
  /\ upstreamResult.kind = "ok"
  /\ ViewerUrlFor(response) = Str(ViewerUrlPrefix \o "i-2")

\* ---------------------------------------------------------------------------
\* C25
\* ---------------------------------------------------------------------------

\* the first check, in the order method, credential, file, instructions,
\* that the request to handler h fails; "none" when it passes them all
FirstFailingCheck(h, key, req) ==
  IF ~IsAzure(h) /\ req.method # "POST" THEN "method"
  ELSE IF ~Truthy(key) THEN "credential"
  ELSE IF LacksFilePart(h, req) THEN "file"
  ELSE IF IsBuild(h) /\ LacksInstructions(h, req) THEN "instructions"
  ELSE "none"

\* the response is the error that goes with the check
AnswersCheck(resp, check) ==
  /\ resp.body.t = "string"
  /\ CASE check = "method" -> resp.status = 405 /\ Contains(resp.body.v, "Method not allowed")
       [] check = "credential" -> resp.status = 500 /\ Contains(resp.body.v, "not configured")
       [] check = "file" -> resp.status = 400 /\ Contains(resp.body.v, "file provided")
       [] check = "instructions" ->
            resp.status = 400 /\ Contains(resp.body.v, "No instructions provided")
       [] OTHER -> TRUE

\* a request has reached the handler
RequestAccepted == ppc \in {"upstream", "responded"}

\* C25: each handler checks the method (Vercel only), then the credential,
\* then the file, then the instructions, and answers with the error of the
\* first check that fails: 405, 500 'not configured', 400 for the file, 400
\* for the instructions; a request that fails a check causes no upstream call.
C25_FirstFailingCheckAnswers ==
  (RequestAccepted /\ FirstFailingCheck(handler, apiKey, request) # "none") =>
    /\ upstreamReqs = <<>>
    /\ HandlerResponded
    /\ AnswersCheck(response, FirstFailingCheck(handler, apiKey, request))

\* ---------------------------------------------------------------------------
\* C26
\* ---------------------------------------------------------------------------

\* AppSpec with the progress the handlers can count on: the continuation
\* after `await` runs once the service's promise has settled, and Office.js
\* and the FileReader invoke the callbacks they were given.  Nothing makes a
\* fetch settle: the service calls fetch without a signal or a timer.
FairAppSpec ==
  /\ AppSpec
  /\ WF_vars(HandlerResumes)
  /\ WF_vars(\E res \in DocumentResults :
               running # "none" /\ DocumentSettles(res) /\ UNCHANGED <<appVars, detectorVars>>)
  /\ WF_vars(\E res \in InsertResults :
               running # "none" /\ InsertSettles(res) /\ UNCHANGED <<appVars, detectorVars>>)

\* a handler has been called and has not reached the end of its finally block
HandlerInFlight == running # "none"

\* no handler is in flight, the loading flag is clear and the status line
\* shows success or error
HandlerEnded ==
  /\ running = "none"
  /\ ~state.isLoading
  /\ state.status.type \in {Str("success"), Str("error")}

\* C26: every invocation of handleExportToPDF, handleRedactDocument or
\* handleImportFromPDF eventually ends with isLoading = false and a status
\* of type success or error.
C26_HandlerAlwaysEnds == HandlerInFlight ~> HandlerEnded

\* ---------------------------------------------------------------------------
\* C27
\* ---------------------------------------------------------------------------

Tabs == {"export", "import", "redact"}

\* the `disabled` attribute of the tab's trigger button, as far as the App
\* state decides it (ImportTab also disables its button while no file is
\* selected)
ButtonDisabled(tab) == state.isLoading

\* C27: while a handler is in flight isLoading is true and the trigger
\* buttons of all three tabs are disabled, whichever tab is open; a run of
\* the service starts only when no handler is in flight.
C27_AtMostOneRunInFlight ==
  /\ [](HandlerInFlight => (state.isLoading /\ \A tab \in Tabs : ButtonDisabled(tab)))
  /\ [][runs' # runs => running = "none"]_vars

\* a run started on the Export tab is in flight while the Import tab is open
C27_Witness ==
  /\ running = "handleExportToPDF"
  /\ pc = "viewer"
  /\ state.currentTab = "import"
  /\ \A tab \in Tabs : ButtonDisabled(tab)

\* ---------------------------------------------------------------------------
\* C28
\* ---------------------------------------------------------------------------

\* the handler's run ended with a failure outcome
RunFailed == RunEnded /\ Get(outcome, "success") = Bool(FALSE)

\* the service method behind the trigger button of a result tab
MethodOfTab(tab) == IF tab = "export" THEN "exportToPDF" ELSE "redactDocument"

\* the artifact in the App state is the one the most recent run of the
\* service made
ArtifactOfLatestRun == state.pdfUrl = pdfUrl

\* C28: after a run of handleExportToPDF or handleRedactDocument that ended
\* in failure the App state holds no artifact (pdfUrl and viewerUrl are
\* null) and no download or preview is shown; and a download shown on the
\* Export tab is the artifact of an export run, one shown on the Redact tab
\* the artifact of a redact run.
C28_NoStaleArtifact ==
  /\ RunFailed =>
       /\ state.pdfUrl = Null
       /\ state.viewerUrl = Null
       /\ ~DownloadShown
       /\ ~PreviewShown
  /\ (DownloadShown /\ ArtifactOfLatestRun) => op = MethodOfTab(state.currentTab)


\* ---------------------------------------------------------------------------
\* The closing recommendation and isReady
\* ---------------------------------------------------------------------------

AllChecksPassed == "All checks passed! The add-in should load properly in Word."

\* the calls whose promise has resolved
Resolved(d) == resolved[d] # None

\* C29: in the status a detectSideloadingIssues call returns, the
\* recommendation 'All checks passed! The add-in should load properly in Word.'
\* is present if and only if isReady holds of that status, whatever the
\* environment and whenever the Office.onReady callback runs.
C29_AllChecksPassedIffReady ==
  \A d \in Detections :
    Resolved(d) =>
      ((AllChecksPassed \in Elements(resolved[d].recommendations)) <=> isReady(resolved[d]))


\* ---------------------------------------------------------------------------
\* Overlapping detectSideloadingIssues calls
\* ---------------------------------------------------------------------------

\* the points of a run at which Office may invoke the callback the run
\* registered: between the synchronous checks and the server fetch settling,
\* between the two awaits, or not before the run returns
FiringPoints(env) ==
  IF env.office = "loaded" /\ env.timing = "later"
  THEN {"beforeServer", "beforeManifest", "afterReturn"}
  ELSE {"afterReturn"}

\* the status detectSideloadingIssues returns when no other call runs and no
\* callback of another call is pending: the body of the method with the checks
\* in the order of the code
LoneRun(env, fired) ==
  LET info == [host |-> officeHost]
      st1 == checkDOMElements(
               checkEnvironmentConfiguration(
                 checkOfficeAvailability(initializeStatus, env.office, env.timing),
                 windowLocation),
               env.container)
      st2 == IF fired = "beforeServer" THEN onReadyCallback(st1, info) ELSE st1
      st3 == checkServerConnectivity(st2, env.responded)
      st4 == IF fired = "beforeManifest" THEN onReadyCallback(st3, info) ELSE st3
  IN generateRecommendations(checkManifestFiles(st4, env.accessible))

LoneRunStatuses(env) == {LoneRun(env, fired) : fired \in FiringPoints(env)}

\* call d ran while another call was in flight
Overlapped(d) == callEnv[d] # None /\ callEnv[d].overlapped

\* C30: a detectSideloadingIssues call that overlapped another call on the
\* singleton resolves to a status a lone run in the same environment would
\* return: no issue duplicated or lost, nothing written by the other call or by
\* the other call's Office.onReady callback.
C30_OverlappingCallsResolveAsLoneRuns ==
  \A d \in Detections :
    (Resolved(d) /\ Overlapped(d)) => resolved[d] \in LoneRunStatuses(callEnv[d])

====
